---------------------------- MODULE Spec2Model ----------------------------
(***************************************************************************)
(* Verification model of the dietwise-renderer HTML reducer                *)
(* (src/src/cleaner/cleanHtmlForLLM-mod.ts).                               *)
(*                                                                         *)
(* A caller program owns one Set of allowed tags and calls                 *)
(* cleanDocumentForLLM repeatedly, each time on a freshly parsed document. *)
(* One call is run pass by pass: comment removal and noise removal, the    *)
(* breadth-first unwrap/attribute loop (one iteration per step), the       *)
(* reverse pre-order pruning loop (one iteration per step), then           *)
(* whitespace normalisation and serialisation.                             *)
(*                                                                         *)
(* Documents are trees of nodes.  Node 1 is <body>; the nodes of the       *)
(* parsed input are 2..n+1 in document (pre-)order; the text node that     *)
(* unwrapIfNeeded creates when it unwraps table node k is node -k; the     *)
(* text nodes created by the whitespace pass are not tracked as nodes but  *)
(* only appear in the serialisation.                                       *)
(***************************************************************************)
EXTENDS Integers, Sequences, FiniteSets, TLC

\* ------------------------------------------------------------ bounds

\* Largest number of nodes under <body> in a generated input document.
MaxNodes == 3

\* Number of cleanDocumentForLLM calls the caller program makes.
MaxCalls == 2

\* Largest maxDepth value a caller passes besides the default.
MaxBudget == 2

\* The script blocks of a document given to the extractor are at most this many.
MaxBlocks == 3

\* Recipe nodes are nested at most this deep beneath the top node of a block.
MaxNest == 2

\* Texts of ingredients and instructions are at most this long.
MaxText == 2

\* The body given to the minimal-text renderer has at most this many child nodes.
MaxTop == 3

\* A list item given to the minimal-text renderer has at most this many child nodes.
MaxItemKids == 3

\* ------------------------------------------------------------ tag sets

\* A line, and a text, is a sequence of characters.
DEFAULT_OPTIONS ==
  [headingStyle |-> "hash", headingPrefix |-> <<"#">>, listMarker |-> <<"-">>,
   tableCellSeparator |-> <<"\t">>]

DEFAULT_ALLOWED_TAGS ==
  {"h1", "h2", "h3", "h4", "h5", "h6", "p", "ul", "ol", "li", "strong", "em",
   "b", "i", "u", "sup", "sub", "br", "time", "a"}

TABLE_TAGS ==
  {"table", "thead", "tbody", "tfoot", "tr", "th", "td", "caption", "colgroup", "col"}

\* The default of opts.maxDepth.
DefaultMaxDepth == 2000

\* Selector of pass 1 (tag part); the attribute part is [aria-hidden="true"].
NoiseTags ==
  {"script", "style", "noscript", "template", "iframe", "frame", "frameset",
   "object", "embed", "form", "input", "textarea", "select", "button", "svg",
   "canvas", "picture", "source", "meta", "link", "header", "footer", "nav",
   "aside", "share", "ads"}

MediaTags == {"img", "video", "audio", "figure"}

BlockTags ==
  <<"p", "ul", "ol", "li", "h1", "h2", "h3", "h4", "h5", "h6",
    "table", "thead", "tbody", "tr", "th", "td">>

\* Elements that never have children in a parsed document.
VoidTags == {"br", "img", "input", "meta", "link", "source", "embed", "col"}

\* ------------------------------------------------------------ sequences

Range(s) == {s[i] : i \in DOMAIN s}

Min(a, b) == IF a < b THEN a ELSE b

RECURSIVE Flatten(_)
Flatten(ss) == IF ss = <<>> THEN <<>> ELSE Head(ss) \o Flatten(Tail(ss))

\* s with every occurrence of x replaced by the elements of r.
Splice(s, x, r) == Flatten([i \in DOMAIN s |-> IF s[i] = x THEN r ELSE <<s[i]>>])

Without(s, x) == SelectSeq(s, LAMBDA e : e # x)

Reverse(s) == [i \in DOMAIN s |-> s[Len(s) + 1 - i]]

\* ------------------------------------------------------------ URLs
(***************************************************************************)
(* A string that matters to URL handling is a sequence of segments, so     *)
(* that String.replace and String.trim can be computed.  Base is the       *)
(* placeholder base of sanitizeUrl.                                        *)
(***************************************************************************)
Base == "https://example.invalid"

\* What String.prototype.trim strips (the zero-width characters are not among it).
Whitespace == {" ", "\n", "\t", "\r"}

RECURSIVE TrimLeft(_)
TrimLeft(s) == IF s # <<>> /\ Head(s) \in Whitespace THEN TrimLeft(Tail(s)) ELSE s

\* String.prototype.trim
Trim(s) == Reverse(TrimLeft(Reverse(TrimLeft(s))))

\* s.replace(x, ''): the first occurrence only.
RECURSIVE ReplaceFirst(_, _)
ReplaceFirst(s, x) ==
  IF s = <<>> THEN <<>>
  ELSE IF Head(s) = x THEN Tail(s)
  ELSE <<Head(s)>> \o ReplaceFirst(Tail(s), x)

(***************************************************************************)
(* new URL(val, 'https://example.invalid') for the values of the model:    *)
(* ok is FALSE where the constructor throws; protocol, origin and href are *)
(* the fields sanitizeUrl reads.                                           *)
(***************************************************************************)
NoUrl == [ok |-> FALSE, protocol |-> "", origin |-> "", href |-> <<>>]

Parsed(p, o, h) == [ok |-> TRUE, protocol |-> p, origin |-> o, href |-> h]

NewURL(val) ==
  CASE val = <<"https://site.test/a">> ->
         Parsed("https:", "https://site.test", <<"https://site.test/a">>)
    [] val = <<"http://site.test/a">> ->
         Parsed("http:", "http://site.test", <<"http://site.test/a">>)
    [] val = <<"/path?q=1#frag">> ->
         Parsed("https:", Base, <<Base, "/path?q=1#frag">>)
    [] val = <<"img.jpg">> ->
         Parsed("https:", Base, <<Base, "/", "img.jpg">>)
    [] val = <<"/", "img.jpg">> ->
         Parsed("https:", Base, <<Base, "/", "img.jpg">>)
    [] val = <<>> ->
         Parsed("https:", Base, <<Base, "/">>)
    [] val = <<"/">> ->
         Parsed("https:", Base, <<Base, "/">>)
    [] val = <<"javascript:alert(1)">> ->
         Parsed("javascript:", "null", <<"javascript:alert(1)">>)
    [] val = <<"data:text/html,x">> ->
         Parsed("data:", "null", <<"data:text/html,x">>)
    [] val = <<"mailto:a@b.test">> ->
         Parsed("mailto:", "null", <<"mailto:a@b.test">>)
    [] val = <<"tel:123">> ->
         Parsed("tel:", "null", <<"tel:123">>)
    [] val = <<"blob:", Base, "/id">> ->
         Parsed("blob:", Base, <<"blob:", Base, "/id">>)
    [] val = <<"blob:", "/id">> ->
         Parsed("blob:", "null", <<"blob:", "/id">>)
    [] val = <<Base, "//:x">> ->
         Parsed("https:", Base, <<Base, "//:x">>)
    [] OTHER -> NoUrl   \* "//", "//:x" and "http://": Invalid URL

\* /^\/?[\w#/?=&.+%-]+$/.test(val)
SafeCharsOnly(val) ==
  val \in {<<"//">>, <<"/path?q=1#frag">>, <<"img.jpg">>, <<"/", "img.jpg">>, <<"/">>}

Null == <<"null">>

sanitizeUrl(raw, strict) ==
  LET val == Trim(raw)
      u == NewURL(val)
      normalized == ReplaceFirst(u.href, Base)
  IN IF u.ok
       THEN IF ~strict THEN normalized
            ELSE IF u.protocol \in {"http:", "https:"} THEN normalized
            ELSE IF u.origin = Base THEN normalized
            ELSE Null
       ELSE IF ~strict /\ SafeCharsOnly(val) THEN val
            ELSE IF SafeCharsOnly(val) THEN val
            ELSE Null


\* ------------------------------------------------------------ documents
(***************************************************************************)
(* The label of a parsed node: an element (tag, attributes in source       *)
(* order as <<name, value>> pairs), a text node (its data, one character   *)
(* per entry) or a comment.                                                *)
(***************************************************************************)
El(tag, as) == [kind |-> "el", tag |-> tag, attrs |-> as, text |-> <<>>]

Txt(data) == [kind |-> "text", tag |-> "#text", attrs |-> <<>>, text |-> data]

Cmt == [kind |-> "comment", tag |-> "#comment", attrs |-> <<>>, text |-> <<>>]

BodyLabel == El("body", <<>>)

BODY == 1

\* The zero-width characters U+200B..U+200D are written "zw".
ZeroWidth == {"zw"}

VARIABLES
  pc,           \* where the caller / the running call stands
  calls,        \* calls made so far
  callerSet,    \* contents of the Set object the caller owns
  ownSet,       \* contents of the Set the call built from DEFAULT_ALLOWED_TAGS
  opts,         \* the merged options of the running call
  lab,          \* labels of the parsed nodes (the input document)
  kids,         \* child lists of the live document
  kids0,        \* child lists when the breadth-first pass started
  attrs,        \* attribute lists of the live document
  bodyAttached, \* body.parentNode is the html element
  queue,        \* the work queue of the breadth-first pass
  processed,    \* its counter
  dequeued,     \* the nodes the pass has shifted off the queue, in order
  allEls,       \* result of collectElements
  idx,          \* loop index of the pruning loop
  stats,        \* the six counters
  out           \* the serialised result (a sequence of tag tokens and characters)

\* extractJsonLdRecipes (extractJsonLdRecipes.ts)
VARIABLES
  ldPc,         \* where a call of extractJsonLdRecipes stands
  blocks,       \* the ld+json script blocks of the document, in document order
  blockIdx,     \* position of the for loop over blocks
  recipes,      \* the Recipe nodes found so far
  seenIds,      \* the string @id values seen so far
  extracted     \* the value extractJsonLdRecipes returns

cleanerVars == <<pc, calls, callerSet, ownSet, opts, lab, kids, kids0, attrs, bodyAttached,
                 queue, processed, dequeued, allEls, idx, stats, out>>

\* documentToMinimalText (htmlToMinimalText.ts)
VARIABLES
  mtPc,         \* where a call of documentToMinimalText stands
  mtOpts,       \* opts, the options merged over the defaults
  mtKids,       \* the child nodes of the body, which processChildrenAsBlocks walks
  mtIdx,        \* position of its for loop
  mtLines,      \* lines
  mtBuffer,     \* inlineBuffer
  mtGroups,     \* the lines each group (a block, or a run of inline nodes) has emitted
  mtOut         \* the text returned

\* Semaphore (semaphore.ts) and the callers of acquire()
VARIABLES
  semMax,       \* max; 0 before the server has constructed the semaphore
  semActive,    \* active
  semQueue,     \* queue: the callers whose resolver closures are queued, oldest first
  semState,     \* per caller: "idle", "queued" (its acquire() is pending) or "holding"
  semPending,   \* the callers with a pending acquire(), in the order of their calls
  semLast       \* the caller whose queued closure release() ran last; 0 if none yet

\* BrowserPool (BrowserPool.ts)
VARIABLES
  poolPc,       \* "new" until init() has completed, then "ready"
  poolBrowsers, \* browsers: the entries, each with its browser, its alive flag and
                \* whether a replacement launch is pending for it
  poolIndex,    \* index
  poolLaunched, \* how many browsers have been launched (the newest browser's number)
  poolResult    \* what the last acquire() gave its caller, until the caller takes it

\* The POST /render handler (routes/render.ts), per request
VARIABLES
  rqPc,         \* where the handler of each request stands
  rqReleases    \* how often each request has called release()

\* withHardTimeout (withHardTimeout.ts), per call
VARIABLES
  toTask,       \* the task promise: "none" (no call), "pending", "fulfilled", "rejected"
  toTimer,      \* the timer: "none", "armed", "fired" (its callback has started), "cleared"
  toOnTimeout,  \* onTimeout(): "none" (never invoked), "running", "returned", "threw"
  toResult      \* the promise returned: "none", "pending", "value", "error", "timeout"

\* removeConsentUI (removeConsentUI.ts)
VARIABLES
  cuPc,         \* where a call of removeConsentUI stands
  cuLab,        \* the nodes of the document: id, class, role, aria-modal, text
  cuKids,       \* child lists of the live document
  cuKids0,      \* child lists when the call started
  cuCandidates, \* Array.from(candidates): the Set in insertion order
  cuIdx,        \* position of the loop over the candidates
  cuRemoved     \* removed

ldVars == <<ldPc, blocks, blockIdx, recipes, seenIds, extracted>>

cuVars == <<cuPc, cuLab, cuKids, cuKids0, cuCandidates, cuIdx, cuRemoved>>

toVars == <<toTask, toTimer, toOnTimeout, toResult>>

rqVars == <<rqPc, rqReleases>>

poolVars == <<poolPc, poolBrowsers, poolIndex, poolLaunched, poolResult>>

semVars == <<semMax, semActive, semQueue, semState, semPending, semLast>>

mtVars == <<mtPc, mtOpts, mtKids, mtIdx, mtLines, mtBuffer, mtGroups, mtOut>>

\* The variables of the rendering service (semaphore, handler, pool, timeout)
\* and of the consent remover.
serviceVars == <<semVars, poolVars, rqVars, toVars, cuVars>>

\* The variables of the three document functions.
documentVars == <<cleanerVars, ldVars, mtVars>>

\* The variables of the components other than the semaphore.
notSemVars == <<documentVars, poolVars, rqVars, toVars, cuVars>>

\* The variables of the components other than the browser pool.
notPoolVars == <<documentVars, semVars, rqVars, toVars, cuVars>>

\* The variables of the components other than withHardTimeout.
notToVars == <<documentVars, semVars, poolVars, rqVars, cuVars>>

\* The variables of the components other than the consent remover.
notCuVars == <<documentVars, semVars, poolVars, rqVars, toVars>>

\* The variables of the components other than the reducer.
otherVars == <<ldVars, mtVars, serviceVars>>

\* The variables of the components other than the JSON-LD extractor.
notLdVars == <<cleanerVars, mtVars, serviceVars>>

\* The variables of the components other than the minimal-text renderer.
notMtVars == <<cleanerVars, ldVars, serviceVars>>

vars == <<cleanerVars, otherVars>>

Kind(n) == IF n < 0 THEN "text" ELSE lab[n].kind

Tag(n) == IF n < 0 THEN "#text" ELSE lab[n].tag

IsEl(n) == Kind(n) = "el"

\* The separator unwrapIfNeeded creates for table node k is node -k.
Data(n) ==
  IF n < 0 THEN (IF lab[-n].tag = "tr" THEN <<"\n">> ELSE <<" ">>)
  ELSE lab[n].text

ChildNodes(k, n) == IF n \in DOMAIN k THEN k[n] ELSE <<>>

HasParent(k, n) == \E p \in DOMAIN k : n \in Range(k[p])

ParentNode(k, n) == CHOOSE p \in DOMAIN k : n \in Range(k[p])

\* All nodes below n, in document order.
RECURSIVE Below(_, _)
Below(k, n) ==
  LET c == ChildNodes(k, n)
  IN Flatten([i \in DOMAIN c |-> <<c[i]>> \o Below(k, c[i])])

Under(k, n) == Range(Below(k, n))

\* node.remove()
Detach(k, n) == [p \in DOMAIN k |-> Without(k[p], n)]

\* el.textContent
TextContent(k, n) ==
  LET b == SelectSeq(Below(k, n), LAMBDA m : Kind(m) = "text")
  IN Flatten([i \in DOMAIN b |-> Data(b[i])])

AttrNames(as) == {as[i][1] : i \in DOMAIN as}

\* el.getAttribute(name); Null when the attribute is absent
GetAttribute(as, name) ==
  IF name \in AttrNames(as)
    THEN (CHOOSE a \in Range(as) : a[1] = name)[2]
    ELSE Null

\* el.setAttribute(name, v) on an element that has the attribute
SetAttribute(as, name, v) ==
  [i \in DOMAIN as |-> IF as[i][1] = name THEN <<name, v>> ELSE as[i]]

RemoveAttribute(as, name) == SelectSeq(as, LAMBDA a : a[1] # name)

\* ------------------------------------------------------------ inputs
(***************************************************************************)
(* Parsed documents with n nodes under body, labelled from a set of        *)
(* labels.  Nodes are numbered in document order: the parent of node i is  *)
(* node i-1 or one of its ancestors.  Text, comments and void elements     *)
(* are leaves.                                                             *)
(***************************************************************************)
IsLeafLabel(l) == l.kind # "el" \/ l.tag \in VoidTags

RECURSIVE AncestorsOrSelf(_, _)
AncestorsOrSelf(par, i) == IF i = BODY THEN {BODY} ELSE {i} \cup AncestorsOrSelf(par, par[i])

ParentMaps(n) ==
  {par \in [2..(n + 1) -> 1..n] :
     \A i \in 2..(n + 1) : par[i] \in AncestorsOrSelf(par, i - 1)}

Documents(labels, n) ==
  {[lab |-> (1 :> BodyLabel) @@ l, par |-> par] :
     l \in [2..(n + 1) -> labels], par \in ParentMaps(n)}

WellFormed(d) ==
  /\ \A i \in DOMAIN d.par : ~IsLeafLabel(d.lab[d.par[i]])
  \* the parser merges adjacent text nodes
  /\ \A i \in DOMAIN d.par : \A j \in DOMAIN d.par :
        (j = i + 1 /\ d.par[i] = d.par[j]) => ~(d.lab[i].kind = "text" /\ d.lab[j].kind = "text")

DocumentsUpTo(labels, n) ==
  UNION {{d \in Documents(labels, m) : WellFormed(d)} : m \in 0..n}

\* The child lists of a parsed document.
InitialKids(d) ==
  [p \in DOMAIN d.lab |->
     SelectSeq([i \in 1..Len(d.lab) |-> i], LAMBDA i : i \in DOMAIN d.par /\ d.par[i] = p)]


\* ------------------------------------------------------------ the call

\* The Set the caller program builds once (cleanHtmlForLLM.test.ts, 171-172).
CallerTags == DEFAULT_ALLOWED_TAGS \cup {"img"}

ZeroStats ==
  [removedNodes |-> 0, unwrappedNodes |-> 0, removedAttrs |-> 0,
   strippedLinks |-> 0, emptyNodes |-> 0, removedComments |-> 0]

NoResult == [html |-> <<>>, textLength |-> 0]

NoOpts ==
  [allowedRef |-> "own", dropMedia |-> TRUE, strictUrls |-> TRUE,
   keepTables |-> FALSE, maxDepth |-> DefaultMaxDepth]

\* opts.allowedTags: the Set object the merged options refer to.
AllowedTags == IF opts.allowedRef = "caller" THEN callerSet ELSE ownSet

CleanerIdle ==
  /\ pc = "idle"
  /\ calls = 0
  /\ callerSet = CallerTags
  /\ ownSet = {}
  /\ opts = NoOpts
  /\ lab = <<BodyLabel>>
  /\ kids = <<<<>>>>
  /\ kids0 = <<<<>>>>
  /\ attrs = <<<<>>>>
  /\ bodyAttached = TRUE
  /\ queue = <<>>
  /\ processed = 0
  /\ dequeued = <<>>
  /\ allEls = <<>>
  /\ idx = 0
  /\ stats = ZeroStats
  /\ out = NoResult

ExtractorIdle ==
  /\ ldPc = "idle"
  /\ blocks = <<>>
  /\ blockIdx = 0
  /\ recipes = <<>>
  /\ seenIds = {}
  /\ extracted = <<>>

\* Nothing has been called yet.
RendererIdle ==
  /\ mtPc = "idle"
  /\ mtOpts = DEFAULT_OPTIONS
  /\ mtKids = <<>>
  /\ mtIdx = 0
  /\ mtLines = <<>>
  /\ mtBuffer = <<>>
  /\ mtGroups = <<>>
  /\ mtOut = <<>>

\* Callers of the semaphore (requests in flight at most).
MaxCallers == 4

\* Largest MAX_CONCURRENT_JOBS of the model.
MaxPermits == 3

SemCallers == 1..MaxCallers

\* The server has not started: no semaphore yet.
SemaphoreIdle ==
  /\ semMax = 0
  /\ semActive = 0
  /\ semQueue = <<>>
  /\ semState = [c \in SemCallers |-> "idle"]
  /\ semPending = <<>>
  /\ semLast = 0

\* Largest BROWSER_COUNT of the model.
MaxBrowsers == 3

\* Replacement launches after init().
MaxRelaunches == 2

NoBrowser == [kind |-> "none", browser |-> 0]

\* new BrowserPool(size): no entries yet
PoolIdle ==
  /\ poolPc = "new"
  /\ poolBrowsers = <<>>
  /\ poolIndex = 0
  /\ poolLaunched = 0
  /\ poolResult = NoBrowser

\* No request has arrived.
HandlerIdle ==
  /\ rqPc = [r \in SemCallers |-> "idle"]
  /\ rqReleases = [r \in SemCallers |-> 0]

\* Calls of withHardTimeout in flight at most.
MaxTimeoutCalls == 2

TimeoutCalls == 1..MaxTimeoutCalls

\* withHardTimeout has not been called.
TimeoutIdle ==
  /\ toTask = [k \in TimeoutCalls |-> "none"]
  /\ toTimer = [k \in TimeoutCalls |-> "none"]
  /\ toOnTimeout = [k \in TimeoutCalls |-> "none"]
  /\ toResult = [k \in TimeoutCalls |-> "none"]

\* removeConsentUI has not been called.
ConsentIdle ==
  /\ cuPc = "idle"
  /\ cuLab = <<>>
  /\ cuKids = <<>>
  /\ cuKids0 = <<>>
  /\ cuCandidates = <<>>
  /\ cuIdx = 0
  /\ cuRemoved = 0

ServiceIdle == SemaphoreIdle /\ PoolIdle /\ HandlerIdle /\ TimeoutIdle /\ ConsentIdle

Init == CleanerIdle /\ ExtractorIdle /\ RendererIdle /\ ServiceIdle

(***************************************************************************)
(* cleanDocumentForLLM, lines 85-108: the options literal is built (a new  *)
(* Set of the default tags included), the caller's fields are spread over  *)
(* it, and the table tags, 'html' and 'body' are added to the Set that     *)
(* opts.allowedTags then refers to.  o.passSet: the caller passed its Set  *)
(* as options.allowedTags.                                                 *)
(***************************************************************************)
AddedTags(keepTables) == (IF keepTables THEN TABLE_TAGS ELSE {}) \cup {"html", "body"}

MergeOptions(d, o) ==
  /\ opts' = [allowedRef |-> IF o.passSet THEN "caller" ELSE "own",
              dropMedia |-> o.dropMedia, strictUrls |-> o.strictUrls,
              keepTables |-> o.keepTables, maxDepth |-> o.maxDepth]
  /\ callerSet' = IF o.passSet THEN callerSet \cup AddedTags(o.keepTables) ELSE callerSet
  /\ ownSet' = IF o.passSet THEN DEFAULT_ALLOWED_TAGS
               ELSE DEFAULT_ALLOWED_TAGS \cup AddedTags(o.keepTables)

\* removeComments(root): the comment nodes under root
Comments(k, root) == {n \in Under(k, root) : Kind(n) = "comment"}

RECURSIVE DetachAll(_, _)
DetachAll(k, ns) ==
  IF ns = {} THEN k
  ELSE LET n == CHOOSE m \in ns : TRUE IN DetachAll(Detach(k, n), ns \ {n})

removeComments(k, root) == DetachAll(k, Comments(k, root))

\* body.querySelectorAll of pass 1, over child lists k and attribute lists a
NoiseMatches(k, a) ==
  {n \in Under(k, BODY) :
     IsEl(n) /\ (Tag(n) \in NoiseTags \/ GetAttribute(a[n], "aria-hidden") = <<"true">>)}

\* body.querySelectorAll of the media pass, filtered as its callback filters
MediaMatches(k, dropMedia, allowed) ==
  {n \in Under(k, BODY) :
     /\ IsEl(n)
     /\ IF dropMedia THEN Tag(n) \in MediaTags
        ELSE Tag(n) \in {"video", "audio", "figure"} /\ Tag(n) \notin allowed}

(***************************************************************************)
(* const body = doc.body (line 96).  A document with no body element has   *)
(* no nodes here (lab = <<>>).  What doc.body yields for it depends on the *)
(* DOM: null (the standard getter), or an empty body element that the      *)
(* getter creates (linkedom).  BodyIsNull: body is null in the running     *)
(* call.                                                                   *)
(***************************************************************************)
NoBodyDocument == [lab |-> <<>>, par |-> <<>>]

EmptyBodyDocument == [lab |-> <<BodyLabel>>, par |-> <<>>]

DocBody(d) == IF d.lab = <<>> THEN {NoBodyDocument, EmptyBodyDocument} ELSE {d}

BodyIsNull == lab = <<>>

(***************************************************************************)
(* Call: the caller parses a document and calls cleanDocumentForLLM;       *)
(* lines 85-108 run (option merging, the stats object).                    *)
(***************************************************************************)
Call(d, o) ==
  /\ pc = "idle"
  /\ calls < MaxCalls
  /\ calls' = calls + 1
  /\ MergeOptions(d, o)
  /\ \E b \in DocBody(d) :
       /\ lab' = b.lab
       /\ kids' = InitialKids(b)
       /\ kids0' = InitialKids(b)
       /\ attrs' = [n \in DOMAIN b.lab |-> b.lab[n].attrs]
  /\ bodyAttached' = TRUE
  /\ stats' = ZeroStats
  /\ queue' = <<>>
  /\ processed' = 0
  /\ dequeued' = <<>>
  /\ allEls' = <<>>
  /\ idx' = 0
  /\ out' = NoResult
  /\ pc' = "prepare"
  /\ UNCHANGED otherVars

(***************************************************************************)
(* Prepare: lines 110-134 and 166-167.  The first removeComments, the      *)
(* noise pass, the media pass; then the queue is set up.                   *)
(***************************************************************************)
Prepare ==
  /\ pc = "prepare"
  /\ IF BodyIsNull
       THEN \* removeComments(null) returns 0 (line 386); body.querySelectorAll
            \* (line 114) is a property access on null: TypeError
            /\ pc' = "threw"
            /\ UNCHANGED <<kids, kids0, stats, queue>>
       ELSE LET cs == Comments(kids, BODY)
                k1 == removeComments(kids, BODY)
                noise == NoiseMatches(k1, attrs)
                k2 == DetachAll(k1, noise)
                media == MediaMatches(k2, opts.dropMedia, AllowedTags)
                k3 == DetachAll(k2, media)
            IN /\ kids' = k3
               /\ kids0' = k3
               /\ stats' = [stats EXCEPT !.removedComments = @ + Cardinality(cs),
                                         !.removedNodes = @ + Cardinality(noise) + Cardinality(media)]
               /\ queue' = <<BODY>>
               /\ pc' = "bfs"
  /\ processed' = 0
  /\ UNCHANGED <<calls, callerSet, ownSet, opts, lab, attrs, bodyAttached,
                 dequeued, allEls, idx, out>>
  /\ UNCHANGED otherVars

\* ------------------------------------------------------------ pass 2/3

\* unwrapIfNeeded returns a list (not null): el is unwrapped.
Unwraps(k, el) ==
  /\ el # BODY
  /\ Tag(el) \notin AllowedTags
  /\ HasParent(k, el)

\* The separator text node unwrapIfNeeded inserts after el, if any.
Separator(el) ==
  IF ~opts.keepTables /\ Tag(el) \in {"tr", "td", "th"} THEN <<-el>> ELSE <<>>

\* el's children put at the end of the parent's list instead of el's position.
MoveChildrenOutAppending(k, el, sep) ==
  LET p == ParentNode(k, el)
  IN [k EXCEPT ![p] = Without(k[p], el) \o k[el] \o sep, ![el] = <<>>]

\* The child lists after el's children have been moved before it and el removed.
MoveChildrenOut(k, el, sep) ==
  LET p == ParentNode(k, el)
  IN [k EXCEPT ![p] = Splice(k[p], el, k[el] \o sep), ![el] = <<>>]

(***************************************************************************)
(* The attribute loop, lines 182-218, over the snapshot                    *)
(* Array.from(el.attributes) from position i on.  st holds the element's   *)
(* live attributes, keptHref, keptSrc, the attributes removed and whether  *)
(* the loop removed the element (the break of line 204).                   *)
(***************************************************************************)
RECURSIVE AttrLoop(_, _, _, _)
AttrLoop(tag, snap, i, st) ==
  IF i > Len(snap) THEN st
  ELSE
    LET name == snap[i][1]
        value == snap[i][2]
        safe == sanitizeUrl(value, opts.strictUrls)
    IN IF tag = "a" /\ name = "href"
         THEN AttrLoop(tag, snap, i + 1,
                IF safe # Null
                  THEN [st EXCEPT !.as = SetAttribute(@, "href", safe), !.keptHref = TRUE]
                  ELSE [st EXCEPT !.keptHref = FALSE])
       ELSE IF tag = "img" /\ name = "src"
         THEN IF "img" \notin AllowedTags
                THEN [st EXCEPT !.removedEl = TRUE]
                ELSE AttrLoop(tag, snap, i + 1,
                       IF safe # Null
                         THEN [st EXCEPT !.as = SetAttribute(@, "src", safe), !.keptSrc = TRUE]
                         ELSE [st EXCEPT !.keptSrc = FALSE])
       ELSE AttrLoop(tag, snap, i + 1,
              [st EXCEPT !.as = RemoveAttribute(@, name), !.removedAttrs = @ + 1])

AttrLoopStart(el) ==
  [as |-> attrs[el], keptHref |-> FALSE, keptSrc |-> FALSE,
   removedAttrs |-> 0, removedEl |-> FALSE]

CountStrippedLinkAsUnwrap(st) == [st EXCEPT !.unwrappedNodes = @ + 1]

\* stats.strippedLinks++ (line 226)
CountStrippedLink(st) == [st EXCEPT !.strippedLinks = @ + 1]

\* The budget test of the while condition, line 169: processed++ < opts.maxDepth
WithinBudgetOffByOne == processed <= opts.maxDepth

WithinBudget == processed < opts.maxDepth

(***************************************************************************)
(* BfsStep: one iteration of the while loop of lines 169-244.              *)
(***************************************************************************)
BfsStep ==
  /\ pc = "bfs"
  /\ queue # <<>>
  /\ WithinBudget
  /\ processed' = processed + 1
  /\ LET node == Head(queue)
         rest == Tail(queue)
     IN /\ dequeued' = Append(dequeued, node)
        /\ IF ~IsEl(node)
             THEN /\ queue' = rest
                  /\ UNCHANGED <<kids, attrs, stats>>
           ELSE IF Unwraps(kids, node)
             THEN /\ kids' = MoveChildrenOut(kids, node, Separator(node))
                  /\ queue' = rest \o kids[node]
                  /\ stats' = [stats EXCEPT !.unwrappedNodes = @ + 1]
                  /\ UNCHANGED attrs
           ELSE
             LET tag == Tag(node)
                 st == AttrLoop(tag, attrs[node], 1, AttrLoopStart(node))
                 k1 == IF st.removedEl THEN Detach(kids, node) ELSE kids
                 n1 == IF st.removedEl THEN 1 ELSE 0
             IN /\ attrs' = [attrs EXCEPT ![node] = st.as]
                /\ IF tag = "a" /\ ~st.keptHref /\ HasParent(k1, node)
                     THEN /\ kids' = MoveChildrenOut(k1, node, <<>>)
                          /\ queue' = rest
                          /\ stats' = CountStrippedLink(
                                         [stats EXCEPT !.removedAttrs = @ + st.removedAttrs,
                                                       !.removedNodes = @ + n1])
                   ELSE IF tag = "img" /\ ("img" \notin AllowedTags \/ ~st.keptSrc)
                     THEN /\ kids' = Detach(k1, node)
                          /\ queue' = rest
                          /\ stats' = [stats EXCEPT !.removedAttrs = @ + st.removedAttrs,
                                                    !.removedNodes = @ + n1 + 1]
                   ELSE /\ kids' = k1
                        /\ queue' = rest \o k1[node]
                        /\ stats' = [stats EXCEPT !.removedAttrs = @ + st.removedAttrs,
                                                  !.removedNodes = @ + n1]
  /\ UNCHANGED <<pc, calls, callerSet, ownSet, opts, lab, kids0, bodyAttached, allEls, idx, out>>
  /\ UNCHANGED otherVars


\* ------------------------------------------------------------ pass 4

\* isMeaningful, lines 247-254
isMeaningful(k, a, el) ==
  LET tag == Tag(el)
      txt == Trim(SelectSeq(TextContent(k, el), LAMBDA c : c \notin ZeroWidth))
  IN IF tag = "br" THEN TRUE
     ELSE IF tag \in {"ul", "ol"} THEN \E n \in Under(k, el) : IsEl(n) /\ Tag(n) = "li"
     ELSE IF tag = "img"
       THEN "img" \in AllowedTags /\ GetAttribute(a[el], "src") \notin {Null, <<>>}
     ELSE Len(txt) > 0

\* Elements below root in document order.
ElementsBelow(k, root) == SelectSeq(Below(k, root), IsEl)

\* The first max elements from root on, in document (pre-)order.
PreOrderPrefix(k, root, max) ==
  LET all == <<root>> \o ElementsBelow(k, root)
  IN SubSeq(all, 1, Min(max, Len(all)))

collectElementsParentsLast(k, root, max) == Reverse(PreOrderPrefix(k, root, max))

\* collectElements(root, max), lines 363-377: one element per loop iteration,
\* in pre-order, at most max iterations.
collectElements(k, root, max) == PreOrderPrefix(k, root, max)

(***************************************************************************)
(* BfsExit: the while condition of line 169 fails (processed++ still       *)
(* runs when the queue is not empty); collectElements runs (line 257).     *)
(***************************************************************************)
BfsExit ==
  /\ pc = "bfs"
  /\ ~(queue # <<>> /\ WithinBudget)
  /\ processed' = IF queue # <<>> THEN processed + 1 ELSE processed
  /\ allEls' = collectElements(kids, BODY, opts.maxDepth)
  /\ idx' = Len(allEls')
  /\ pc' = "prune"
  /\ UNCHANGED <<calls, callerSet, ownSet, opts, lab, kids, kids0, attrs, bodyAttached,
                 queue, dequeued, stats, out>>
  /\ UNCHANGED otherVars

\* The pruning loop judges el empty and removes it.
Prunes(k, a, el) == Tag(el) \in AllowedTags /\ ~isMeaningful(k, a, el)

(***************************************************************************)
(* PruneStep: one iteration of the for loop of lines 258-265, from the     *)
(* last collected element to the first.                                    *)
(***************************************************************************)
PruneStep ==
  /\ pc = "prune"
  /\ idx >= 1
  /\ idx' = idx - 1
  /\ LET el == allEls[idx]
     IN IF Prunes(kids, attrs, el)
          THEN /\ kids' = Detach(kids, el)
               /\ bodyAttached' = IF el = BODY THEN FALSE ELSE bodyAttached
               /\ stats' = [stats EXCEPT !.emptyNodes = @ + 1]
          ELSE UNCHANGED <<kids, bodyAttached, stats>>
  /\ UNCHANGED <<pc, calls, callerSet, ownSet, opts, lab, kids0, attrs, queue, processed,
                 dequeued, allEls, out>>
  /\ UNCHANGED otherVars


\* ------------------------------------------------------------ pass 5/6
(***************************************************************************)
(* The serialised string is a sequence of tokens: an opening tag with its  *)
(* attributes, a closing tag, or one character.                            *)
(***************************************************************************)
Open(tag, as) == [t |-> "open", v |-> tag, as |-> as]

Close(tag) == [t |-> "close", v |-> tag, as |-> <<>>]

Ch(c) == [t |-> "ch", v |-> c, as |-> <<>>]

IsWs(tok) == tok.t = "ch" /\ tok.v \in Whitespace

IsNl(tok) == tok.t = "ch" /\ tok.v = "\n"

\* br.replaceWith(doc.createTextNode('\n')), line 272: labels after the pass
BrReplaced(k, L) ==
  [n \in DOMAIN L |->
     IF n \in Under(k, BODY) /\ L[n].kind = "el" /\ L[n].tag = "br"
       THEN Txt(<<"\n">>) ELSE L[n]]

KindIn(L, n) == IF n < 0 THEN "text" ELSE L[n].kind

(***************************************************************************)
(* innerHTML of node n after lines 294-303 put a newline text node before  *)
(* a non-text first child and after a non-text last child of every block   *)
(* element.                                                                *)
(***************************************************************************)
RECURSIVE OuterHTML(_, _, _, _)
InnerHTML(L, k, a, n) ==
  LET c == ChildNodes(k, n)
      block == L[n].tag \in Range(BlockTags) /\ n # BODY
      pre == IF block /\ c # <<>> /\ KindIn(L, c[1]) # "text" THEN <<Ch("\n")>> ELSE <<>>
      post == IF block /\ c # <<>> /\ KindIn(L, c[Len(c)]) # "text" THEN <<Ch("\n")>> ELSE <<>>
  IN pre \o Flatten([i \in DOMAIN c |-> OuterHTML(L, k, a, c[i])]) \o post

OuterHTML(L, k, a, n) ==
  IF KindIn(L, n) = "text"
    THEN LET d == IF n < 0 THEN Data(n) ELSE L[n].text IN [i \in DOMAIN d |-> Ch(d[i])]
  ELSE IF KindIn(L, n) = "comment" THEN <<>>
  ELSE <<Open(L[n].tag, a[n])>> \o InnerHTML(L, k, a, n)
       \o (IF L[n].tag \in VoidTags THEN <<>> ELSE <<Close(L[n].tag)>>)

\* .replace(/\n\s*/g, '\n'); after: the previous token ended a /\n\s*/ match
RECURSIVE DropWsAfterNewline(_, _)
DropWsAfterNewline(s, after) ==
  IF s = <<>> THEN <<>>
  ELSE IF IsNl(Head(s)) /\ ~after THEN <<Head(s)>> \o DropWsAfterNewline(Tail(s), TRUE)
  ELSE IF IsWs(Head(s)) /\ after THEN DropWsAfterNewline(Tail(s), TRUE)
  ELSE <<Head(s)>> \o DropWsAfterNewline(Tail(s), FALSE)

IsBlank(tok) == tok.t = "ch" /\ tok.v \in {"\t", "\r", " "}

\* .replace(/[\t\r ]+/g, ' ')
RECURSIVE CollapseBlanks(_, _)
CollapseBlanks(s, inRun) ==
  IF s = <<>> THEN <<>>
  ELSE IF IsBlank(Head(s))
    THEN (IF inRun THEN <<>> ELSE <<Ch(" ")>>) \o CollapseBlanks(Tail(s), TRUE)
  ELSE <<Head(s)>> \o CollapseBlanks(Tail(s), FALSE)

\* .replace(/\n{2,}/g, '\n')
RECURSIVE CollapseNewlines(_, _)
CollapseNewlines(s, inRun) ==
  IF s = <<>> THEN <<>>
  ELSE IF IsNl(Head(s))
    THEN (IF inRun THEN <<>> ELSE <<Head(s)>>) \o CollapseNewlines(Tail(s), TRUE)
  ELSE <<Head(s)>> \o CollapseNewlines(Tail(s), FALSE)

RECURSIVE TrimTokensLeft(_)
TrimTokensLeft(s) == IF s # <<>> /\ IsWs(Head(s)) THEN TrimTokensLeft(Tail(s)) ELSE s

TrimTokens(s) == Reverse(TrimTokensLeft(Reverse(TrimTokensLeft(s))))

\* out.replace(/\n/g, '<br>')
RestoreBr(s) == [i \in DOMAIN s |-> IF IsNl(s[i]) THEN Open("br", <<>>) ELSE s[i]]

\* Length of the match of <(T)>\s*<\/(T)> at the start of s, 0 when none.
RECURSIVE WsRun(_)
WsRun(s) == IF s # <<>> /\ IsWs(Head(s)) THEN 1 + WsRun(Tail(s)) ELSE 0

EmptyPairAt(s, T) ==
  IF s # <<>> /\ Head(s) = Open(Head(s).v, <<>>) /\ Head(s).v \in T
    THEN LET w == WsRun(Tail(s))
         IN IF Len(s) >= w + 2 /\ s[w + 2].t = "close" /\ s[w + 2].v \in T
              THEN w + 2 ELSE 0
    ELSE 0

\* .replace(/<(T)>\s*<\/(T)>/g, '')
RECURSIVE RemoveEmptyPairs(_, _)
RemoveEmptyPairs(s, T) ==
  IF s = <<>> THEN <<>>
  ELSE LET m == EmptyPairAt(s, T)
       IN IF m > 0 THEN RemoveEmptyPairs(SubSeq(s, m + 1, Len(s)), T)
          ELSE <<Head(s)>> \o RemoveEmptyPairs(Tail(s), T)

\* out.replace(/<li>/g, '\n<li>')
LiOnOwnLine(s) ==
  Flatten([i \in DOMAIN s |-> IF s[i] = Open("li", <<>>) THEN <<Ch("\n"), s[i]>> ELSE <<s[i]>>])

Headings == {"h1", "h2", "h3", "h4", "h5", "h6"}

\* lines 306-323
Normalize(html) ==
  LET a1 == TrimTokens(CollapseNewlines(CollapseBlanks(DropWsAfterNewline(html, FALSE), FALSE), FALSE))
      a2 == RestoreBr(a1)
      a3 == RemoveEmptyPairs(RemoveEmptyPairs(RemoveEmptyPairs(RemoveEmptyPairs(
              a2, {"ul", "ol"}), {"li"}), {"p"}), Headings)
  IN TrimTokens(LiOnOwnLine(a3))

\* textLength, lines 355-360
textLength(html) ==
  LET chars == SelectSeq(html, LAMBDA tok : tok.t = "ch")
      spaced == [i \in DOMAIN chars |->
                   IF chars[i].v \in Whitespace \cup ZeroWidth THEN Ch(" ") ELSE chars[i]]
  IN Len(TrimTokens(CollapseBlanks(spaced, FALSE)))

(***************************************************************************)
(* Finish: the pruning loop is over; lines 267-325 run: removeComments     *)
(* again, <br> to newline, block newlines, serialisation, and the result   *)
(* is returned.                                                            *)
(***************************************************************************)
Finish ==
  /\ pc = "prune"
  /\ idx = 0
  /\ LET cs == Comments(kids, BODY)
         k1 == removeComments(kids, BODY)
         L == BrReplaced(k1, lab)
         html == Normalize(InnerHTML(L, k1, attrs, BODY))
     IN /\ kids' = k1
        /\ lab' = L
        /\ stats' = [stats EXCEPT !.removedComments = @ + Cardinality(cs)]
        /\ out' = [html |-> html, textLength |-> textLength(html)]
  /\ pc' = "done"
  /\ UNCHANGED <<calls, callerSet, ownSet, opts, kids0, attrs, bodyAttached, queue,
                 processed, dequeued, allEls, idx>>
  /\ UNCHANGED otherVars

(***************************************************************************)
(* Return: the caller takes the result (or the error thrown) and drops the *)
(* document.                                                               *)
(***************************************************************************)
Return ==
  /\ pc \in {"done", "threw"}
  /\ pc' = "idle"
  /\ opts' = NoOpts
  /\ ownSet' = {}
  /\ lab' = <<BodyLabel>>
  /\ kids' = <<<<>>>>
  /\ kids0' = <<<<>>>>
  /\ attrs' = <<<<>>>>
  /\ bodyAttached' = TRUE
  /\ queue' = <<>>
  /\ processed' = 0
  /\ dequeued' = <<>>
  /\ allEls' = <<>>
  /\ idx' = 0
  /\ stats' = ZeroStats
  /\ out' = NoResult
  /\ UNCHANGED <<calls, callerSet>>
  /\ UNCHANGED otherVars


\* ------------------------------------------------------------ the caller
(***************************************************************************)
(* What the caller passes.  Each family is every well-formed document of   *)
(* up to MaxNodes nodes over a set of labels, with a set of options.       *)
(***************************************************************************)
X == Txt(<<"x">>)

Class == <<"class", <<"c">>>>

Href(u) == <<"href", u>>

Src(u) == <<"src", u>>

JsUrl == <<"javascript:alert(1)">>

RelUrl == <<"/path?q=1#frag">>

Options(passSet, dropMedia, strictUrls, keepTables, maxDepth) ==
  [passSet |-> passSet, dropMedia |-> dropMedia, strictUrls |-> strictUrls,
   keepTables |-> keepTables, maxDepth |-> maxDepth]

Family(labels, options) ==
  {[d |-> d, o |-> o] : d \in DocumentsUpTo(labels, MaxNodes), o \in options}

\* body > l1 > l2 > ...
Chain(labels) ==
  [lab |-> <<BodyLabel>> \o labels, par |-> [i \in 2..(Len(labels) + 1) |-> i - 1]]

AnchorInputs ==
  Family({X, El("span", <<Class>>), El("p", <<Class>>), El("a", <<Href(JsUrl)>>),
          El("a", <<Class, Href(RelUrl)>>)},
         {Options(FALSE, TRUE, s, FALSE, DefaultMaxDepth) : s \in BOOLEAN})

TableInputs ==
  Family({X, El("tr", <<>>), El("td", <<>>), El("a", <<Href(JsUrl)>>)},
         {Options(ps, TRUE, TRUE, kt, DefaultMaxDepth) : ps \in BOOLEAN, kt \in BOOLEAN})

ListInputs ==
  Family({X, Txt(<<" ">>), El("ul", <<>>), El("li", <<>>), El("p", <<>>)},
         {Options(TRUE, FALSE, TRUE, FALSE, DefaultMaxDepth)})

InlineInputs ==
  Family({X, Txt(<<"zw">>), El("p", <<>>), El("br", <<>>),
          El("img", <<Src(<<"img.jpg">>), Class>>)},
         {Options(TRUE, FALSE, TRUE, FALSE, DefaultMaxDepth)})

BudgetInputs ==
  Family({X, El("div", <<Class>>), El("p", <<Class>>)},
         {Options(FALSE, TRUE, TRUE, FALSE, m) : m \in 0..MaxBudget})

NoiseInputs ==
  Family({X, Cmt, El("script", <<>>), El("p", <<<<"aria-hidden", <<"true">>>>>>),
          El("figure", <<>>), El("img", <<Src(RelUrl)>>)},
         {Options(FALSE, TRUE, TRUE, FALSE, DefaultMaxDepth),
          Options(TRUE, FALSE, TRUE, FALSE, DefaultMaxDepth)})

\* The raw href/src values of the model.
RawUrls ==
  {<<"https://site.test/a">>, <<"http://site.test/a">>, RelUrl, <<" ", "/path?q=1#frag", " ">>,
   <<"img.jpg">>, <<>>, JsUrl, <<"data:text/html,x">>, <<"mailto:a@b.test">>,
   <<"tel:123">>, <<"blob:", Base, "/id">>, <<"//">>, <<"http://">>, <<Base, "//:x">>}

UrlInputs ==
  {[d |-> d, o |-> Options(TRUE, FALSE, s, FALSE, DefaultMaxDepth)] :
     d \in {Chain(<<El("a", <<Href(u)>>), X>>) : u \in RawUrls}
           \cup {Chain(<<El("img", <<Src(u)>>)>>) : u \in RawUrls},
     s \in BOOLEAN}

\* A document without a body element.
NoBodyInputs ==
  {[d |-> NoBodyDocument, o |-> Options(ps, TRUE, TRUE, FALSE, DefaultMaxDepth)] : ps \in BOOLEAN}

Inputs ==
  AnchorInputs \cup TableInputs \cup ListInputs \cup InlineInputs \cup BudgetInputs
    \cup NoiseInputs \cup UrlInputs \cup NoBodyInputs

(***************************************************************************)
(* The caller program: its first call passes any input; a later call       *)
(* passes the caller's Set again (a call that does not pass it reads only  *)
(* its own Set and repeats a first call).                                  *)
(***************************************************************************)
CallerCalls ==
  /\ pc = "idle"
  /\ calls < MaxCalls
  /\ \E inp \in Inputs :
       /\ calls > 0 => inp.o.passSet
       /\ Call(inp.d, inp.o)

Next ==
  \/ CallerCalls
  \/ Prepare
  \/ BfsStep
  \/ BfsExit
  \/ PruneStep
  \/ Finish
  \/ Return

Spec == Init /\ [][Next]_vars


\* ------------------------------------------------------------ JSON-LD
(***************************************************************************)
(* extractJsonLdRecipes.ts.  A JSON value, as JSON.parse returns it: k is  *)
(* its kind, s the characters of a string, a the elements of an array, o   *)
(* the members of an object as <<key, value>> pairs in source order.       *)
(* Undefined is what reading a missing member yields.                      *)
(***************************************************************************)
JValue(k, s, a, o) == [k |-> k, s |-> s, a |-> a, o |-> o]

JStr(s) == JValue("str", s, <<>>, <<>>)

JArr(a) == JValue("arr", <<>>, a, <<>>)

JObj(o) == JValue("obj", <<>>, <<>>, o)

\* A number, s holding its decimal digits.
JNum(s) == JValue("num", s, <<>>, <<>>)

JNull == JValue("null", <<>>, <<>>, <<>>)

Undefined == JValue("undef", <<>>, <<>>, <<>>)

\* record[key]
Get(node, key) ==
  IF node.k = "obj" /\ \E i \in DOMAIN node.o : node.o[i][1] = key
    THEN node.o[CHOOSE i \in DOMAIN node.o : node.o[i][1] = key][2]
    ELSE Undefined

\* key in record
Has(node, key) == node.k = "obj" /\ \E i \in DOMAIN node.o : node.o[i][1] = key

\* !value
Falsy(v) ==
  \/ v.k \in {"undef", "null"}
  \/ v.k = "str" /\ v.s = <<>>
  \/ v.k = "num" /\ v.s = <<"0">>

Truthy(v) == ~Falsy(v)

\* value && typeof value === 'object'
IsObject(v) == v.k \in {"obj", "arr"}

RECURSIVE JoinWith(_, _)
JoinWith(ss, sep) ==
  IF ss = <<>> THEN <<>>
  ELSE IF Len(ss) = 1 THEN ss[1]
  ELSE ss[1] \o sep \o JoinWith(Tail(ss), sep)

\* String(value)
RECURSIVE StringOf(_)
StringOf(v) ==
  CASE v.k \in {"str", "num"} -> v.s
    [] v.k = "arr" -> JoinWith([i \in DOMAIN v.a |->
                                  IF v.a[i].k \in {"null", "undef"} THEN <<>>
                                  ELSE StringOf(v.a[i])], <<",">>)
    [] v.k = "obj" -> <<"[object Object]">>
    [] v.k = "null" -> <<"null">>
    [] OTHER -> <<"undefined">>

SchemaOrgStrings ==
  {<<"https://schema.org">>, <<"https://schema.org/">>, <<"http://schema.org">>,
   <<"http://schema.org/">>}

isSchemaOrgString(v) == v.k = "str" /\ v.s \in SchemaOrgStrings

\* isSchemaOrgContext, lines 105-127
isSchemaOrgContext(context) ==
  IF Falsy(context) THEN TRUE
  ELSE IF isSchemaOrgString(context) THEN TRUE
  ELSE IF context.k = "arr"
    THEN \E i \in DOMAIN context.a :
           \/ isSchemaOrgString(context.a[i])
           \/ IsObject(context.a[i]) /\ isSchemaOrgString(Get(context.a[i], "@vocab"))
  ELSE IF context.k = "obj" THEN isSchemaOrgString(Get(context, "@vocab"))
  ELSE FALSE

\* arrayHasSchemaOrgContext, lines 97-103
arrayHasSchemaOrgContext(nodes) ==
  \E i \in DOMAIN nodes :
    IsObject(nodes[i]) /\ isSchemaOrgContext(Get(nodes[i], "@context"))

\* normalizeType, lines 129-133
normalizeType(t) ==
  IF Falsy(t) THEN <<>>
  ELSE IF t.k = "arr" THEN [i \in DOMAIN t.a |-> StringOf(t.a[i])]
  ELSE <<StringOf(t)>>

\* type.includes(name)
Includes(type, name) == <<name>> \in Range(type)

addRecipeKeepingDuplicates(recipe, st) == [st EXCEPT !.recipes = Append(@, recipe)]

\* addRecipe, lines 88-95; st holds recipes and seenIds
addRecipe(recipe, st) ==
  LET id == Get(recipe, "@id")
  IN IF id.k = "str"
       THEN IF id.s \in st.seenIds THEN st
            ELSE [recipes |-> Append(st.recipes, recipe), seenIds |-> st.seenIds \cup {id.s}]
       ELSE [st EXCEPT !.recipes = Append(@, recipe)]

\* The keys addNestedIfRecipe follows, in its order.
NestedKeys ==
  <<"mainEntity", "mainEntityOfPage", "hasPart", "subjectOf", "about", "itemListElement",
    "itemList", "isPartOf">>

RECURSIVE addIfRecipe(_, _, _)
RECURSIVE AddEach(_, _, _)
RECURSIVE AddUnderKeys(_, _, _, _)

\* for (const n of nodes) addIfRecipe(n, recipes, seenIds, contextAllowed)
AddEach(nodes, st, contextAllowed) ==
  IF nodes = <<>> THEN st
  ELSE AddEach(Tail(nodes), addIfRecipe(Head(nodes), st, contextAllowed), contextAllowed)

\* The loop of addNestedIfRecipe over keys from position i on, lines 78-85.
AddUnderKeys(node, i, st, contextAllowed) ==
  IF i > Len(NestedKeys) THEN st
  ELSE LET value == Get(node, NestedKeys[i])
           st1 == IF value.k = "arr" THEN AddEach(value.a, st, contextAllowed)
                  ELSE IF IsObject(value) THEN addIfRecipe(value, st, contextAllowed)
                  ELSE st
       IN AddUnderKeys(node, i + 1, st1, contextAllowed)

\* addNestedIfRecipe, lines 65-86
addNestedIfRecipe(node, st, contextAllowed) ==
  IF ~IsObject(node) THEN st ELSE AddUnderKeys(node, 1, st, contextAllowed)

\* addIfRecipe, lines 43-63
addIfRecipe(node, st, contextAllowed) ==
  IF ~IsObject(node) THEN st
  ELSE IF node.k = "arr"
    THEN AddEach(node.a, st, contextAllowed \/ arrayHasSchemaOrgContext(node.a))
  ELSE
    LET allowContext == contextAllowed \/ isSchemaOrgContext(Get(node, "@context"))
        type == normalizeType(Get(node, "@type"))
        st1 == IF Includes(type, "Recipe") THEN addRecipe(node, st) ELSE st
        graph == Get(node, "@graph")
        st2 == IF graph.k = "arr" THEN AddEach(graph.a, st1, allowContext) ELSE st1
    IN IF ~allowContext THEN st ELSE addNestedIfRecipe(node, st2, allowContext)

(***************************************************************************)
(* Text is a sequence of characters.  "zw" stands for the zero-width       *)
(* characters U+200B..U+200D; Whitespace is what \s matches, and "-"       *)
(* stands for the list-marker characters [-–•].                            *)
(***************************************************************************)
IsZeroWidth(c) == c = "zw"

IsSpace(c) == c \in Whitespace

IsMarker(c) == c = "-"

\* .replace(/\s+/g, ' ')
RECURSIVE CollapseSpaces(_)
CollapseSpaces(t) ==
  IF t = <<>> THEN <<>>
  ELSE IF IsSpace(t[1])
    THEN IF Len(t) > 1 /\ IsSpace(t[2]) THEN CollapseSpaces(Tail(t))
         ELSE <<" ">> \o CollapseSpaces(Tail(t))
  ELSE <<t[1]>> \o CollapseSpaces(Tail(t))

\* .replace(/^[-–•\s]+/, '')
RECURSIVE StripLeadingMarkers(_)
StripLeadingMarkers(t) ==
  IF t # <<>> /\ (IsMarker(t[1]) \/ IsSpace(t[1])) THEN StripLeadingMarkers(Tail(t)) ELSE t

cleanTextKeepingMarkers(t) ==
  Trim(CollapseSpaces(SelectSeq(t, LAMBDA c : ~IsZeroWidth(c))))

\* cleanText, lines 238-244
cleanText(t) ==
  Trim(StripLeadingMarkers(CollapseSpaces(SelectSeq(t, LAMBDA c : ~IsZeroWidth(c)))))

\* The characters JSON.stringify writes for a string's content.
RECURSIVE Escaped(_)
Escaped(t) ==
  IF t = <<>> THEN <<>>
  ELSE (IF t[1] = "\n" THEN <<"\\", "n">> ELSE <<t[1]>>) \o Escaped(Tail(t))

\* JSON.stringify(value)
RECURSIVE Stringify(_)
Stringify(v) ==
  CASE v.k = "str" -> <<"\"">> \o Escaped(v.s) \o <<"\"">>
    [] v.k = "num" -> v.s
    [] v.k = "arr" ->
         <<"[">> \o JoinWith([i \in DOMAIN v.a |-> Stringify(v.a[i])], <<",">>) \o <<"]">>
    [] v.k = "obj" ->
         <<"{">> \o JoinWith([i \in DOMAIN v.o |->
                               <<"\"", v.o[i][1], "\"", ":">> \o Stringify(v.o[i][2])],
                             <<",">>) \o <<"}">>
    [] OTHER -> <<"null">>

\* ingredientFromNamedObject, lines 179-187
ingredientFromNamedObject(item) ==
  IF ~IsObject(item) THEN <<>>
  ELSE IF Get(item, "text").k = "str" THEN cleanText(Get(item, "text").s)
  ELSE IF Get(item, "name").k = "str" THEN cleanText(Get(item, "name").s)
  ELSE <<>>

\* ingredientFromUnknownObject, lines 189-199
ingredientFromUnknownObject(item) ==
  IF ~IsObject(item) THEN <<>>
  ELSE IF Get(item, "@id").k = "str" THEN cleanText(Get(item, "@id").s)
  ELSE cleanText(Stringify(item))

\* a || b on strings
OrElse(a, b) == IF a # <<>> THEN a ELSE b

RECURSIVE normalizeRecipeIngredientItem(_)
RECURSIVE ingredientFromRole(_)

\* ingredientFromRole, lines 163-177
ingredientFromRole(item) ==
  IF ~IsObject(item) THEN <<>>
  ELSE IF Includes(normalizeType(Get(item, "@type")), "Role") \/ Has(item, "recipeIngredient")
    THEN LET value == Get(item, "recipeIngredient")
         IN IF value.k = "str" THEN cleanText(value.s)
            ELSE IF value.k = "arr"
              THEN LET parts == [i \in DOMAIN value.a |->
                                   normalizeRecipeIngredientItem(value.a[i])]
                   IN cleanText(JoinWith(SelectSeq(parts, LAMBDA part : Len(part) > 0),
                                         <<" ">>))
            ELSE IF IsObject(value) THEN ingredientFromNamedObject(value)
            ELSE <<>>
  ELSE <<>>

\* normalizeRecipeIngredientItem, lines 156-161
normalizeRecipeIngredientItem(item) ==
  IF Falsy(item) THEN <<>>
  ELSE IF item.k = "str" THEN cleanText(item.s)
  ELSE IF ~IsObject(item) THEN cleanText(StringOf(item))
  ELSE OrElse(ingredientFromRole(item),
              OrElse(ingredientFromNamedObject(item), ingredientFromUnknownObject(item)))

\* normalizeRecipeIngredients, lines 147-154
normalizeRecipeIngredients(ingredients) ==
  IF Falsy(ingredients) THEN <<>>
  ELSE IF ingredients.k = "arr"
    THEN SelectSeq([i \in DOMAIN ingredients.a |->
                      normalizeRecipeIngredientItem(ingredients.a[i])],
                   LAMBDA item : Len(item) > 0)
  ELSE LET single == normalizeRecipeIngredientItem(ingredients)
       IN IF single # <<>> THEN <<single>> ELSE <<>>

\* What flattenInstructions has produced: the list out, and whether a TypeError was thrown.
Flat(list, threw) == [out |-> list, threw |-> threw]

pushKeepingEmpty(list, s) == Append(list, cleanText(s))

\* push, lines 204-207
push(list, s) == LET t == cleanText(s) IN IF Len(t) > 0 THEN Append(list, t) ELSE list

\* x.text || x.name || '' of line 227, as join() writes it
TextOrName(x) ==
  IF Truthy(Get(x, "text")) THEN StringOf(Get(x, "text"))
  ELSE IF Truthy(Get(x, "name")) THEN StringOf(Get(x, "name"))
  ELSE <<>>

RECURSIVE walk(_, _)
RECURSIVE WalkEach(_, _)

\* nodes.forEach(walk); a throw ends the loop
WalkEach(nodes, fl) ==
  IF nodes = <<>> \/ fl.threw THEN fl ELSE WalkEach(Tail(nodes), walk(Head(nodes), fl))

\* walk, lines 208-233
walk(node, fl) ==
  IF Falsy(node) THEN fl
  ELSE IF node.k = "str" THEN Flat(push(fl.out, node.s), FALSE)
  ELSE IF node.k = "arr" THEN WalkEach(node.a, fl)
  ELSE
    LET type == normalizeType(Get(node, "@type"))
        itemListElement == Get(node, "itemListElement")
        text == Get(node, "text")
        name == Get(node, "name")
    IN IF /\ Truthy(itemListElement)
          /\ \/ Includes(type, "HowToSection")
             \/ Includes(type, "ItemList")
             \/ Len(type) = 0
         THEN IF itemListElement.k = "arr" THEN WalkEach(itemListElement.a, fl)
              ELSE walk(itemListElement, fl)
       ELSE IF text.k = "str" THEN Flat(push(fl.out, text.s), FALSE)
       ELSE IF Includes(type, "HowToStep") /\ Truthy(name) /\ Truthy(itemListElement)
         THEN IF itemListElement.k = "arr"
                THEN IF \E i \in DOMAIN itemListElement.a :
                          itemListElement.a[i].k \in {"null", "undef"}
                       THEN Flat(fl.out, TRUE)
                       ELSE Flat(push(fl.out,
                                      StringOf(name) \o <<":", " ">>
                                        \o JoinWith([i \in DOMAIN itemListElement.a |->
                                                       TextOrName(itemListElement.a[i])],
                                                    <<" ">>)),
                                 FALSE)
                ELSE Flat(push(fl.out, StringOf(name) \o <<":", " ">>
                                         \o StringOf(itemListElement)), FALSE)
       ELSE IF name.k = "str" THEN Flat(push(fl.out, name.s), FALSE)
       ELSE fl

\* flattenInstructions, lines 201-236
flattenInstructions(instructions) ==
  IF Falsy(instructions) THEN Flat(<<>>, FALSE) ELSE walk(instructions, Flat(<<>>, FALSE))

\* value?.toString()
OptionalString(v) == IF v.k \in {"null", "undef"} THEN Undefined ELSE JStr(StringOf(v))

mergedIngredientsOfBoth(recipeIngredients, legacyIngredients) ==
  recipeIngredients \o legacyIngredients

\* line 138
mergedIngredients(recipeIngredients, legacyIngredients) ==
  IF Len(recipeIngredients) > 0 THEN recipeIngredients ELSE legacyIngredients

\* normalizeJsonLdRecipe, lines 135-145
normalizeJsonLdRecipe(r) ==
  [name |-> OptionalString(Get(r, "name")),
   recipeYield |-> OptionalString(Get(r, "recipeYield")),
   recipeIngredients |->
     mergedIngredients(normalizeRecipeIngredients(Get(r, "recipeIngredient")),
                       normalizeRecipeIngredients(Get(r, "ingredients"))),
   recipeInstructions |-> flattenInstructions(Get(r, "recipeInstructions")).out]

\* normalizeJsonLdRecipe throws what flattenInstructions throws (line 143).
normalizeThrows(r) == flattenInstructions(Get(r, "recipeInstructions")).threw

(***************************************************************************)
(* A script block of the document: its text is blank ("empty"), fails to   *)
(* parse ("malformed"), or parses to the value json.                       *)
(***************************************************************************)
EmptyBlock == [text |-> "empty", json |-> Undefined]

MalformedBlock == [text |-> "malformed", json |-> Undefined]

JsonBlock(v) == [text |-> "json", json |-> v]

BlockRecipesForgettingEarlier(block, st) ==
  IF block.text = "json" THEN addIfRecipe(block.json, st, FALSE)
  ELSE IF block.text = "malformed" THEN [recipes |-> <<>>, seenIds |-> {}]
  ELSE st

\* One iteration of the loop of findJsonLdRecipes, lines 31-39: a blank text is
\* skipped, a parse error is caught and ignored.
BlockRecipes(block, st) ==
  IF block.text = "json" THEN addIfRecipe(block.json, st, FALSE) ELSE st

\* extractJsonLdRecipes is called with a document holding the script blocks bs.
LdCall(bs) ==
  /\ ldPc = "idle"
  /\ ldPc' = "loop"
  /\ blocks' = bs
  /\ blockIdx' = 1
  /\ recipes' = <<>>
  /\ seenIds' = {}
  /\ extracted' = <<>>
  /\ UNCHANGED notLdVars

\* for (const block of blocks) { ... }, lines 31-39
LdBlock ==
  /\ ldPc = "loop"
  /\ blockIdx <= Len(blocks)
  /\ LET st == BlockRecipes(blocks[blockIdx], [recipes |-> recipes, seenIds |-> seenIds])
     IN /\ recipes' = st.recipes
        /\ seenIds' = st.seenIds
  /\ blockIdx' = blockIdx + 1
  /\ UNCHANGED <<ldPc, blocks, extracted, notLdVars>>

\* findJsonLdRecipes(doc).map(normalizeJsonLdRecipe), line 23
LdNormalize ==
  /\ ldPc = "loop"
  /\ blockIdx > Len(blocks)
  /\ IF \E i \in DOMAIN recipes : normalizeThrows(recipes[i])
       THEN ldPc' = "threw" /\ extracted' = <<>>
       ELSE /\ ldPc' = "done"
            /\ extracted' = [i \in DOMAIN recipes |-> normalizeJsonLdRecipe(recipes[i])]
  /\ UNCHANGED <<blocks, blockIdx, recipes, seenIds, notLdVars>>

\* The caller has the result (or the exception); nothing of the call is kept.
LdReturn ==
  /\ ldPc \in {"done", "threw"}
  /\ ldPc' = "idle"
  /\ blocks' = <<>>
  /\ blockIdx' = 0
  /\ recipes' = <<>>
  /\ seenIds' = {}
  /\ extracted' = <<>>
  /\ UNCHANGED notLdVars

(***************************************************************************)
(* The documents the extractor is called with.                             *)
(***************************************************************************)
\* An object literal; a member whose value is Undefined is not written.
Obj(members) == JObj(SelectSeq(members, LAMBDA m : m[2].k # "undef"))

Typed(t) == <<"@type", JStr(<<t>>)>>

SchemaOrg == JStr(<<"https://schema.org">>)

RecipeNode(id, name, more) ==
  Obj(<<Typed("Recipe"), <<"@id", id>>, <<"name", JStr(<<name>>)>>>> \o more)

SeqsUpTo(S, n) == UNION {[1..m -> S] : m \in 0..n}

\* Blocks with and without a string @id, blank and malformed ones.
DedupBlocks ==
  {EmptyBlock, MalformedBlock,
   JsonBlock(RecipeNode(JStr(<<"a">>), "n1", <<>>)),
   JsonBlock(RecipeNode(JStr(<<"a">>), "n2", <<>>)),
   JsonBlock(RecipeNode(JStr(<<"b">>), "n3", <<>>)),
   JsonBlock(RecipeNode(Undefined, "n1", <<>>)),
   JsonBlock(RecipeNode(JNum(<<"7">>), "n2", <<>>)),
   JsonBlock(JArr(<<RecipeNode(JStr(<<"a">>), "n4", <<>>), RecipeNode(Undefined, "n1", <<>>),
                    RecipeNode(JStr(<<"a">>), "n5", <<>>)>>))}

DedupInputs == SeqsUpTo(DedupBlocks, MaxBlocks) \ {<<>>}

LinkKeys == Range(NestedKeys) \cup {"@graph"}

\* A page node holding child under key, directly or in an array.
Link(key, form, child) ==
  Obj(<<Typed("WebPage"), <<key, IF form = "arr" THEN JArr(<<child>>) ELSE child>>>>)

RECURSIVE Nested(_)
Nested(n) ==
  IF n = 0 THEN {RecipeNode(Undefined, "n1", <<>>)}
  ELSE {Link(key, form, child) : key \in LinkKeys, form \in {"arr", "obj"},
                                 child \in Nested(n - 1)}

Contexts ==
  {Undefined, SchemaOrg, JStr(<<"https://example.invalid/ns">>),
   JArr(<<JStr(<<"https://example.invalid/ns">>),
          JObj(<<<<"@vocab", JStr(<<"http://schema.org/">>)>>>>)>>)}

WithContext(v, context) == Obj(<<<<"@context", context>>>> \o v.o)

NestedInputs ==
  UNION {{<<JsonBlock(WithContext(v, c))>>, <<JsonBlock(JArr(<<WithContext(v, c)>>))>>} :
           v \in UNION {Nested(n) : n \in 0..MaxNest}, c \in Contexts}

TextAlphabet == {"a", " ", "-", "zw", "\n"}

\* Longer texts: whitespace runs, zero-width characters between spaces, markers.
SampleTexts ==
  {<<"a", " ", "\n", "a">>, <<" ", "-", " ", "a", "zw", " ">>,
   <<"a", "zw", " ", "zw", " ", "a">>, <<"-", "-", "a", "-", "a">>}

Texts == SeqsUpTo(TextAlphabet, MaxText) \cup SampleTexts

ShortTexts == {t \in Texts : Len(t) <= 1}

Step(members) == Obj(<<Typed("HowToStep")>> \o members)

InstructionAtoms(T) ==
  {JStr(t) : t \in T}
    \cup {Step(<<<<"text", JStr(t)>>, <<"name", JStr(<<"a">>)>>>>) : t \in T}
    \cup {Step(<<<<"name", JStr(t)>>>>) : t \in T}

InstructionItems == InstructionAtoms(ShortTexts) \cup {JNull}

InstructionLists ==
  InstructionItems \cup {JArr(<<x, y>>) : x \in InstructionItems, y \in InstructionItems}

InstructionValues ==
  InstructionAtoms(Texts)
    \cup InstructionLists
    \cup {Obj(<<<<"@type", type>>, <<"itemListElement", items>>,
                <<"text", JStr(<<"a">>)>>>>) :
            type \in {Undefined, JStr(<<"HowToSection">>), JStr(<<"ItemList">>)},
            items \in InstructionLists}
    \cup {Step(<<<<"name", name>>, <<"itemListElement", items>>>>) :
            name \in {Undefined} \cup {JStr(t) : t \in ShortTexts},
            items \in InstructionLists}

InstructionInputs ==
  {<<JsonBlock(RecipeNode(Undefined, "n1", <<<<"recipeInstructions", v>>>>))>> :
     v \in InstructionValues}

IngredientAtoms(T) ==
  {JStr(t) : t \in T}
    \cup {Obj(<<<<"text", JStr(t)>>, <<"name", JStr(<<"a">>)>>>>) : t \in T}
    \cup {Obj(<<<<"name", JStr(t)>>>>) : t \in T}
    \cup {Obj(<<Typed("Role"), <<"recipeIngredient", JStr(t)>>>>) : t \in T}
    \cup {Obj(<<<<"recipeIngredient", JStr(t)>>, <<"name", JStr(<<"a">>)>>>>) : t \in T}
    \cup {Obj(<<Typed("Thing"), <<"@id", JStr(t)>>>>) : t \in T}

IngredientItems ==
  {JStr(t) : t \in ShortTexts}
    \cup {JNull, JNum(<<"0">>), JNum(<<"7">>), Obj(<<Typed("Thing")>>),
          Obj(<<<<"name", JNum(<<"7">>)>>, <<"x", JStr(<<"a", "\n", "a">>)>>>>),
          JArr(<<JStr(<<"a">>)>>),
          Obj(<<Typed("Role")>>),
          Obj(<<Typed("Role"),
                <<"recipeIngredient",
                  JArr(<<JStr(<<"a">>), JStr(<<" ">>), Obj(<<<<"name", JStr(<<"-", "a">>)>>>>)>>)>>>>),
          Obj(<<Typed("Role"), <<"recipeIngredient", Obj(<<<<"name", JStr(<<"a", " ">>)>>>>)>>>>),
          Obj(<<Typed("Role"), <<"recipeIngredient", Obj(<<Typed("Thing")>>)>>, <<"name", JStr(<<"a">>)>>>>)}

IngredientValues ==
  {Undefined, JNull, JArr(<<>>)}
    \cup IngredientAtoms(Texts)
    \cup {JArr(<<x>>) : x \in IngredientAtoms(Texts)}
    \cup IngredientItems
    \cup {JArr(<<x, y>>) : x \in IngredientItems, y \in IngredientItems}

LegacyValues ==
  {Undefined, JStr(<<"a">>), JStr(<<"zw">>), JArr(<<>>),
   JArr(<<JStr(<<"-", "a">>), JStr(<<" ">>), JStr(<<"a", "a">>)>>)}

IngredientInputs ==
  {<<JsonBlock(RecipeNode(Undefined, "n1",
                          <<<<"recipeIngredient", ri>>, <<"ingredients", legacy>>>>))>> :
     ri \in IngredientValues, legacy \in LegacyValues}

ForeignContext == JStr(<<"https://example.invalid/ns">>)

\* What a root-level array holds: nodes that only carry a context, and Recipe
\* nodes with a context of their own or without one.
ArrayEntries ==
  {Obj(<<<<"@context", c>>>>) : c \in {SchemaOrg, ForeignContext}}
    \cup {WithContext(RecipeNode(Undefined, name, <<>>), c) :
            name \in {"n1", "n2"}, c \in Contexts}

\* One block whose JSON is an array of one or two entries.
ArrayInputs ==
  {<<JsonBlock(JArr(es))>> : es \in SeqsUpTo(ArrayEntries, 2) \ {<<>>}}

LdInputs ==
  DedupInputs \cup NestedInputs \cup InstructionInputs \cup IngredientInputs \cup ArrayInputs

ExtractorCalls == ldPc = "idle" /\ \E bs \in LdInputs : LdCall(bs)

LdNext ==
  \/ ExtractorCalls
  \/ LdBlock
  \/ LdNormalize
  \/ LdReturn

LdSpec == Init /\ [][LdNext]_vars

\* ------------------------------------------------------------ minimal text
(***************************************************************************)
(* htmlToMinimalText.ts.  A DOM node here is a value: t is the lower-case  *)
(* tag name of an element, "#text" or "#comment"; s the characters of a    *)
(* text node; c the child nodes.  A line is a sequence of characters, the  *)
(* blank line the empty one.                                               *)
(***************************************************************************)
Elem(tag, children) == [t |-> tag, s |-> <<>>, c |-> children]

TextNode(data) == [t |-> "#text", s |-> data, c |-> <<>>]

CommentNode == [t |-> "#comment", s |-> <<>>, c |-> <<>>]

\* nodeType === 1
IsElement(node) == node.t \notin {"#text", "#comment"}

BLOCK_TAGS ==
  {"h1", "h2", "h3", "h4", "h5", "h6", "p", "ul", "ol", "li", "table", "thead", "tbody",
   "tfoot", "tr", "th", "td"}

HeadingLevel ==
  [tag \in {"h1", "h2", "h3", "h4", "h5", "h6"} |->
     CASE tag = "h1" -> 1 [] tag = "h2" -> 2 [] tag = "h3" -> 3
       [] tag = "h4" -> 4 [] tag = "h5" -> 5 [] OTHER -> 6]

\* The descendants of a node in document order.
RECURSIVE Descendants(_)
Descendants(node) ==
  Flatten([i \in DOMAIN node.c |-> <<node.c[i]>> \o Descendants(node.c[i])])

\* root.querySelectorAll(tags)
QuerySelectorAll(root, tags) == SelectSeq(Descendants(root), LAMBDA n : n.t \in tags)

\* getBodyElement: the body the document has; without one, doc.body (which the
\* DOM implementation may create empty) or else the document element.
getBodyElement(doc) ==
  IF QuerySelectorAll(doc, {"body"}) # <<>> THEN {Head(QuerySelectorAll(doc, {"body"}))}
  ELSE {Elem("body", <<>>), doc}

\* isBlockElement, lines 167-169
isBlockElement(el) == el.t \in BLOCK_TAGS

isListElementUlOnly(el) == el.t = "ul"

\* isListElement, lines 171-174
isListElement(el) == el.t \in {"ul", "ol"}

\* textFromInline, lines 176-187
RECURSIVE textFromInline(_)
textFromInline(node) ==
  IF node.t = "#text" THEN node.s
  ELSE IF ~IsElement(node) THEN <<>>
  ELSE IF node.t = "br" THEN <<"\n">>
  ELSE Flatten([i \in DOMAIN node.c |-> textFromInline(node.c[i])])

\* normalizeInline, lines 189-191
normalizeInline(text) == Trim(CollapseSpaces(text))

\* text.split('\n')
RECURSIVE SplitLines(_)
SplitLines(text) ==
  IF \E i \in DOMAIN text : text[i] = "\n"
    THEN LET i == CHOOSE j \in DOMAIN text :
                    text[j] = "\n" /\ \A k \in 1..(j - 1) : text[k] # "\n"
         IN <<SubSeq(text, 1, i - 1)>> \o SplitLines(SubSeq(text, i + 1, Len(text)))
    ELSE <<text>>

\* splitAndNormalize, lines 193-198
splitAndNormalize(text) ==
  SelectSeq([i \in DOMAIN SplitLines(text) |-> Trim(CollapseSpaces(SplitLines(text)[i]))],
            LAMBDA line : line # <<>>)

pushSeparatorInverted(ls) ==
  IF Len(ls) = 0 THEN ls ELSE IF ls[Len(ls)] = <<>> THEN Append(ls, <<>>) ELSE ls

\* pushSeparator, lines 57-60
pushSeparator(ls) ==
  IF Len(ls) = 0 THEN ls ELSE IF ls[Len(ls)] # <<>> THEN Append(ls, <<>>) ELSE ls

\* appendTextLines, lines 62-69
appendTextLines(ls, text, prefix) ==
  LET parts == splitAndNormalize(text)
  IN ls \o [i \in DOMAIN parts |-> IF i = 1 THEN prefix \o parts[i] ELSE parts[i]]

\* '#'.repeat(n)
Hashes(n) == [i \in 1..n |-> "#"]

\* headingLine, lines 71-80
headingLine(ls, o, level, text) ==
  LET cleaned == normalizeInline(text)
  IN IF cleaned = <<>> THEN ls
     ELSE IF o.headingStyle = "prefix" THEN Append(ls, o.headingPrefix \o <<" ">> \o cleaned)
     ELSE Append(ls, Hashes(Min(IF level > 1 THEN level ELSE 1, 6)) \o <<" ">> \o cleaned)

RECURSIVE handleList(_, _, _)
RECURSIVE handleListItem(_, _, _)
RECURSIVE HandleEach(_, _, _)

\* for (const el of els) handle(el), for the items of a list and the lists of an item
HandleEach(ls, o, els) ==
  IF els = <<>> THEN ls
  ELSE HandleEach(IF Head(els).t = "li" THEN handleListItem(ls, o, Head(els))
                  ELSE handleList(ls, o, Head(els)),
                  o, Tail(els))

\* handleList, lines 82-87
handleList(ls, o, listEl) ==
  HandleEach(ls, o, SelectSeq(listEl.c, LAMBDA li : li.t = "li"))

\* handleListItem, lines 89-100
handleListItem(ls, o, li) ==
  LET own == SelectSeq(li.c, LAMBDA child : ~(IsElement(child) /\ isListElement(child)))
      inline == Flatten([i \in DOMAIN own |-> textFromInline(own[i])])
  IN HandleEach(appendTextLines(ls, inline, o.listMarker \o <<" ">>), o,
                SelectSeq(li.c, LAMBDA child : IsElement(child) /\ isListElement(child)))

\* The line of one table row, lines 105-107
RowLine(o, row) ==
  LET cells == QuerySelectorAll(row, {"th", "td"})
      cellTexts == [i \in DOMAIN cells |-> normalizeInline(textFromInline(cells[i]))]
  IN JoinWith(SelectSeq(cellTexts, LAMBDA t : t # <<>>), o.tableCellSeparator)

\* handleTable, lines 102-110
handleTable(ls, o, tableEl) ==
  LET rows == QuerySelectorAll(tableEl, {"tr"})
  IN ls \o SelectSeq([i \in DOMAIN rows |-> RowLine(o, rows[i])], LAMBDA line : line # <<>>)

\* handleBlock, lines 112-139
handleBlock(ls, o, el) ==
  CASE el.t \in DOMAIN HeadingLevel -> headingLine(ls, o, HeadingLevel[el.t], textFromInline(el))
    [] el.t = "p" -> appendTextLines(ls, textFromInline(el), <<>>)
    [] el.t \in {"ul", "ol"} -> handleList(ls, o, el)
    [] el.t = "li" -> handleListItem(ls, o, el)
    [] el.t = "table" -> handleTable(ls, o, el)
    [] OTHER -> appendTextLines(ls, textFromInline(el), <<>>)

\* collapseBlankLines, lines 200-211
RECURSIVE collapseBlankLines(_)
collapseBlankLines(ls) ==
  IF ls = <<>> THEN <<>>
  ELSE LET before == collapseBlankLines(SubSeq(ls, 1, Len(ls) - 1))
           line == ls[Len(ls)]
       IN IF line = <<>> /\ (before = <<>> \/ before[Len(before)] = <<>>) THEN before
          ELSE Append(before, line)

\* inlineBuffer.trim() is not empty
HasText(buffer) == Trim(buffer) # <<>>

\* The lines a step has added to ls.
Added(ls, after) == SubSeq(after, Len(ls) + 1, Len(after))

\* groups with one more group, when that has lines.
WithGroup(groups, added) == IF added = <<>> THEN groups ELSE Append(groups, added)

\* documentToMinimalText is called, lines 47-51.
MtCall(doc, options) ==
  /\ mtPc = "idle"
  /\ mtPc' = "walk"
  /\ mtOpts' = options
  /\ \E body \in getBodyElement(doc) : mtKids' = body.c
  /\ mtIdx' = 1
  /\ mtLines' = <<>>
  /\ mtBuffer' = <<>>
  /\ mtGroups' = <<>>
  /\ mtOut' = <<>>
  /\ UNCHANGED notMtVars

\* One turn of the loop of processChildrenAsBlocks, lines 143-155.
MtChild ==
  /\ mtPc = "walk"
  /\ mtIdx <= Len(mtKids)
  /\ LET child == mtKids[mtIdx]
         flushed == IF HasText(mtBuffer)
                      THEN pushSeparator(appendTextLines(mtLines, mtBuffer, <<>>))
                      ELSE mtLines
         handled == handleBlock(flushed, mtOpts, child)
     IN IF IsElement(child) /\ isBlockElement(child)
          THEN /\ mtLines' = pushSeparator(handled)
               /\ mtBuffer' = IF HasText(mtBuffer) THEN <<>> ELSE mtBuffer
               /\ mtGroups' = WithGroup(WithGroup(mtGroups,
                                                  IF HasText(mtBuffer)
                                                    THEN Added(mtLines,
                                                               appendTextLines(mtLines, mtBuffer, <<>>))
                                                    ELSE <<>>),
                                        Added(flushed, handled))
          ELSE /\ mtBuffer' = mtBuffer \o textFromInline(child)
               /\ UNCHANGED <<mtLines, mtGroups>>
  /\ mtIdx' = mtIdx + 1
  /\ UNCHANGED <<mtPc, mtOpts, mtKids, mtOut, notMtVars>>

\* The end of processChildrenAsBlocks and the return, lines 157-164.
MtFinish ==
  /\ mtPc = "walk"
  /\ mtIdx > Len(mtKids)
  /\ LET final == IF HasText(mtBuffer) THEN appendTextLines(mtLines, mtBuffer, <<>>)
                  ELSE mtLines
     IN /\ mtLines' = final
        /\ mtGroups' = WithGroup(mtGroups, Added(mtLines, final))
        /\ mtOut' = Trim(JoinWith(collapseBlankLines(final), <<"\n">>))
  /\ mtPc' = "done"
  /\ UNCHANGED <<mtOpts, mtKids, mtIdx, mtBuffer, notMtVars>>

\* The caller has the text; nothing of the call is kept.
MtReturn ==
  /\ mtPc = "done"
  /\ mtPc' = "idle"
  /\ mtOpts' = DEFAULT_OPTIONS
  /\ mtKids' = <<>>
  /\ mtIdx' = 0
  /\ mtLines' = <<>>
  /\ mtBuffer' = <<>>
  /\ mtGroups' = <<>>
  /\ mtOut' = <<>>
  /\ UNCHANGED notMtVars

(***************************************************************************)
(* The documents the renderer is called with.                              *)
(***************************************************************************)
Html(children) == Elem("html", <<Elem("head", <<>>), Elem("body", children)>>)

Letter(c) == TextNode(<<c>>)

\* Nodes that are not blocks: they go to the inline buffer.
InlineNodes ==
  {Letter("a"), TextNode(<<" ">>), Elem("br", <<>>), Elem("span", <<Letter("b")>>),
   Elem("div", <<Elem("p", <<Letter("c")>>), CommentNode>>)}

\* Blocks, of which some emit nothing.
BlockNodes ==
  {Elem("h2", <<Letter("d")>>), Elem("h1", <<TextNode(<<" ">>)>>),
   Elem("p", <<Letter("e"), Elem("br", <<>>), TextNode(<<" ", "f", " ", " ", "g">>)>>),
   Elem("p", <<>>),
   Elem("ul", <<Elem("li", <<Letter("h")>>), Elem("li", <<Letter("i")>>)>>),
   Elem("table", <<Elem("tr", <<Elem("th", <<Letter("j")>>), Elem("td", <<Letter("k")>>)>>),
                   Elem("tr", <<Elem("td", <<TextNode(<<" ">>)>>)>>)>>)}

TopInputs ==
  {[doc |-> Html(nodes), options |-> DEFAULT_OPTIONS] :
     nodes \in SeqsUpTo(InlineNodes \cup BlockNodes, MaxTop)}

\* Documents without a body element.
NoBodyTextInputs ==
  {[doc |-> Elem("html", nodes), options |-> DEFAULT_OPTIONS] :
     nodes \in SeqsUpTo({Letter("a"), Elem("p", <<Letter("e")>>)}, 2)}

StarOptions ==
  [headingStyle |-> "prefix", headingPrefix |-> <<"=">>, listMarker |-> <<"*">>,
   tableCellSeparator |-> <<" ", "|", " ">>]

\* What a list item holds: text, line breaks, inline elements, nested lists.
ItemNodes ==
  {Letter("a"), TextNode(<<" ">>), Elem("br", <<>>), Elem("span", <<Letter("b")>>),
   CommentNode, TextNode(<<"h", "\n", " ", "i">>),
   Elem("ul", <<Elem("li", <<Letter("c")>>)>>),
   Elem("ol", <<Elem("li", <<Letter("d"), Elem("ul", <<Elem("li", <<Letter("e")>>)>>)>>),
                TextNode(<<" ">>), Elem("li", <<Letter("f")>>)>>)}

Items == {Elem("li", nodes) : nodes \in SeqsUpTo(ItemNodes, MaxItemKids)}

TextListInputs ==
  {[doc |-> Html(<<Elem(tag, <<li, Elem("li", <<Letter("g")>>)>>)>>), options |-> o] :
     tag \in {"ul", "ol"}, li \in Items, o \in {DEFAULT_OPTIONS, StarOptions}}

MtInputs == TopInputs \cup NoBodyTextInputs \cup TextListInputs

RendererCalls == mtPc = "idle" /\ \E i \in MtInputs : MtCall(i.doc, i.options)

MtNext ==
  \/ RendererCalls
  \/ MtChild
  \/ MtFinish
  \/ MtReturn

MtSpec == Init /\ [][MtNext]_vars

\* ------------------------------------------------------------ properties

\* The breadth-first pass ended because its queue ran empty, not its budget.
BudgetSufficed == queue = <<>>

TableStructureTags == {"table", "thead", "tbody", "tr", "th", "td"}

OpenTags(html) == {html[i].v : i \in {j \in DOMAIN html : html[j].t = "open"}}

\* The href (of an a) or src (of an img) the parser read for node n; Null if none.
UrlAttr(n) == IF lab[n].tag = "a" THEN "href" ELSE "src"

RawUrl(n) == GetAttribute(lab[n].attrs, UrlAttr(n))

(***************************************************************************)
(* C1.  Whitelist closure: when a call has returned (its budget having     *)
(* sufficed), no element under body and no tag of the output has a tag     *)
(* outside the effective allowed-tag set.                                  *)
(***************************************************************************)
C1_WhitelistClosure ==
  (pc = "done" /\ BudgetSufficed) =>
    /\ \A n \in Under(kids, BODY) : IsEl(n) => Tag(n) \in AllowedTags
    /\ OpenTags(out.html) \subseteq AllowedTags

(***************************************************************************)
(* C2.  Anchor safety: with strictUrls, when a call has returned (its      *)
(* budget having sufficed), no anchor whose href URL sanitisation rejects  *)
(* is left under body, and the output has no a tag carrying such a href.   *)
(***************************************************************************)
C2_AnchorSafety ==
  (pc = "done" /\ opts.strictUrls /\ BudgetSufficed) =>
    /\ \A n \in Under(kids, BODY) :
         (IsEl(n) /\ Tag(n) = "a" /\ RawUrl(n) # Null)
           => sanitizeUrl(RawUrl(n), TRUE) # Null
    /\ \A i \in DOMAIN out.html :
         (out.html[i].t = "open" /\ out.html[i].v = "a")
           => GetAttribute(out.html[i].as, "href") # JsUrl

(***************************************************************************)
(* C3.  Attribute stripping: when a call has returned (its budget having   *)
(* sufficed), every attribute of every element under body is the           *)
(* sanitised href of an a or the sanitised src of an img.                  *)
(***************************************************************************)
C3_AttributesStripped ==
  (pc = "done" /\ BudgetSufficed) =>
    \A n \in Under(kids, BODY) :
      IsEl(n) =>
        \A i \in DOMAIN attrs[n] :
          /\ Tag(n) \in {"a", "img"}
          /\ attrs[n][i][1] = UrlAttr(n)
          /\ attrs[n][i][2] # Null
          /\ attrs[n][i][2] = sanitizeUrl(RawUrl(n), opts.strictUrls)

(***************************************************************************)
(* C4.  Node budget: the breadth-first pass shifts at most maxDepth nodes  *)
(* off its queue, text nodes counted; a node still queued has never been   *)
(* shifted and, while the pass runs and when it ends, has the attributes   *)
(* and the children it had when the pass started; and every step of a call *)
(* brings its return nearer, whether or not the budget ran out.            *)
(***************************************************************************)
PassRunsOrJustEnded == pc = "bfs" \/ (pc = "prune" /\ idx = Len(allEls))

C4_BudgetKept ==
  /\ pc \in {"bfs", "prune", "done"} =>
       /\ Len(dequeued) <= opts.maxDepth
       /\ Range(queue) \cap Range(dequeued) = {}
  /\ pc = "bfs" => Len(dequeued) = processed
  /\ PassRunsOrJustEnded =>
       \A n \in Range(queue) :
         IsEl(n) => /\ attrs[n] = lab[n].attrs
                    /\ kids[n] = kids0[n]
                    /\ n \in {BODY} \cup Under(kids, BODY)

\* How many steps a call may still take before it returns, at most.
StepsLeft ==
  CASE pc = "prepare" -> Len(lab) + opts.maxDepth + 4
    [] pc = "bfs" -> Len(lab) + (opts.maxDepth - Len(dequeued)) + 3
    [] pc = "prune" -> idx + 1
    [] OTHER -> 0

C4_EveryStepNearer ==
  (pc \in {"prepare", "bfs", "prune"} /\ ~BodyIsNull) =>
    /\ pc' \in {"bfs", "prune", "done"}
    /\ StepsLeft' < StepsLeft
    /\ StepsLeft' >= 0

\* C4: the budget is kept in every state, and every step of a call brings its return nearer.
C4_NodeBudget == []C4_BudgetKept /\ [][C4_EveryStepNearer]_vars

\* The budget ran out with an element that has attributes still queued, and the call returned.
C4_Witness ==
  /\ pc = "done"
  /\ Len(dequeued) = opts.maxDepth
  /\ \E n \in Range(queue) : IsEl(n) /\ attrs[n] # <<>>

(***************************************************************************)
(* C5.  The caller's allowedTags Set always holds exactly the members the  *)
(* caller gave it.                                                         *)
(***************************************************************************)
C5_CallerSetUnchanged == callerSet = CallerTags

(***************************************************************************)
(* C6.  No state leaks from one call into the next: in a second call that  *)
(* passes the caller's Set (which the caller built without table tags)     *)
(* with keepTables false, every table-structure element the breadth-first  *)
(* pass has shifted off its queue is unwrapped.                            *)
(***************************************************************************)
C6_NoLeakAcrossCalls ==
  (pc \in {"bfs", "prune", "done"} /\ calls = 2 /\ ~opts.keepTables) =>
    \A n \in Range(dequeued) :
      (IsEl(n) /\ Tag(n) \in TABLE_TAGS) => n \notin Under(kids, BODY)

(***************************************************************************)
(* C7.  html and body are in the effective allowed-tag set throughout a    *)
(* call, and body always stays attached to the html element.               *)
(***************************************************************************)
C7_BodyAnchored ==
  /\ pc \in {"prepare", "bfs", "prune", "done"} => {"html", "body"} \subseteq AllowedTags
  /\ bodyAttached

(***************************************************************************)
(* C8.  Empty-element pruning: once the pruning loop is over (maxDepth     *)
(* being at least the number of nodes), every whitelisted element under    *)
(* body is meaningful.                                                     *)
(***************************************************************************)
C8_EmptyPruned ==
  (((pc = "prune" /\ idx = 0) \/ pc = "done") /\ opts.maxDepth >= Len(lab)) =>
    \A n \in Under(kids, BODY) :
      (IsEl(n) /\ Tag(n) \in AllowedTags) => isMeaningful(kids, attrs, n)

\* A list lost its only item to the pruning and then was pruned itself.
C8_Witness ==
  /\ pc = "done"
  /\ stats.emptyNodes >= 2
  /\ \E u \in DOMAIN lab :
       /\ lab[u].tag = "ul"
       /\ u \notin Under(kids, BODY)
       /\ kids[u] = <<>>
       /\ \E l \in Range(kids0[u]) : lab[l].tag = "li"

(***************************************************************************)
(* C9.  Table policy: when a first call with keepTables false has returned *)
(* (its budget having sufficed), no table-structure element is left under  *)
(* body and no table-structure tag is in the output.                       *)
(***************************************************************************)
C9_TablePolicy ==
  (pc = "done" /\ calls = 1 /\ ~opts.keepTables /\ BudgetSufficed) =>
    /\ \A n \in Under(kids, BODY) : IsEl(n) => Tag(n) \notin TableStructureTags
    /\ OpenTags(out.html) \cap TableStructureTags = {}

(***************************************************************************)
(* C10.  URL sanitisation, read off the anchors and images the             *)
(* breadth-first pass has handled: with strictUrls the element keeps its   *)
(* href/src only if the raw value, trimmed, resolves to an http or https   *)
(* URL (as a relative value does against the placeholder base) or is a     *)
(* bare relative that does not parse and passes the safe-character test;   *)
(* without strictUrls every value that parses is kept; /path?q=1#frag is   *)
(* kept unchanged.                                                         *)
(***************************************************************************)
Handled(n) ==
  /\ pc = "bfs"
  /\ n \in Range(dequeued)
  /\ IsEl(n)
  /\ Tag(n) \in {"a", "img"}
  /\ Tag(n) \in AllowedTags
  /\ RawUrl(n) # Null

Kept(n) == HasParent(kids, n)

\* C10: what strictUrls keeps resolves to http/https or is an unparseable bare relative.
C10_UrlSanitization ==
  \A n \in DOMAIN lab :
    Handled(n) =>
      LET val == Trim(RawUrl(n))
          u == NewURL(val)
      IN /\ (opts.strictUrls /\ Kept(n)) =>
              \/ u.ok /\ u.protocol \in {"http:", "https:"}
              \/ ~u.ok /\ SafeCharsOnly(val)
         /\ (opts.strictUrls /\ u.ok
               /\ u.protocol \in {"javascript:", "data:", "mailto:", "tel:"}) => ~Kept(n)
         /\ (~opts.strictUrls /\ u.ok) => Kept(n)
         /\ val = RelUrl => Kept(n) /\ GetAttribute(attrs[n], UrlAttr(n)) = RelUrl


(***************************************************************************)
(* C11.  Graceful degradation: a call on a document that has no body       *)
(* element never throws; it returns the empty result.                      *)
(***************************************************************************)
C11_NoBodyDegrades ==
  /\ pc # "threw"
  /\ (pc = "done" /\ lab = <<BodyLabel>>) => out = NoResult


(***************************************************************************)
(* C12.  Statistics: the six counters are zero when a call starts, never   *)
(* decrease during it, and each step adds to each counter exactly the      *)
(* number of operations of its kind the step performed on the tree: nodes  *)
(* removed, elements unwrapped (their children left in their place),       *)
(* attributes removed, anchors stripped (counted in strippedLinks, not in  *)
(* unwrappedNodes), empty elements pruned, comments removed; so on return  *)
(* the counters account for the nodes of this call's document only.        *)
(***************************************************************************)
CounterNames ==
  {"removedNodes", "unwrappedNodes", "removedAttrs", "strippedLinks", "emptyNodes",
   "removedComments"}

\* Nodes that have a parent before the step and none after it.
GoneInStep == {n \in DOMAIN lab : HasParent(kids, n) /\ ~HasParent(kids', n)}

\* The children of n are, after the step, children of what was n's parent.
ChildrenLeftInPlace(n) ==
  \A c \in Range(kids[n]) : c \in Range(kids'[ParentNode(kids, n)])

AttributesGoneInStep ==
  LET changed == {n \in DOMAIN attrs : Len(attrs'[n]) # Len(attrs[n])}
  IN IF changed = {} THEN 0
     ELSE LET n == CHOOSE m \in changed : TRUE
          IN IF Cardinality(changed) = 1 THEN Len(attrs[n]) - Len(attrs'[n]) ELSE -1

C12_StepCounts ==
  (pc \in {"prepare", "bfs", "prune"} /\ ~BodyIsNull) =>
    LET els == {n \in GoneInStep : IsEl(n)}
        unwrapped == {n \in els : pc = "bfs" /\ Tag(n) \notin AllowedTags}
        stripped == {n \in els : pc = "bfs" /\ Tag(n) = "a" /\ Tag(n) \in AllowedTags}
        pruned == {n \in els : pc = "prune"}
        removed == els \ (unwrapped \cup stripped \cup pruned)
        bodyGone == IF bodyAttached /\ ~bodyAttached' THEN 1 ELSE 0
        comments == {n \in GoneInStep : Kind(n) = "comment"}
    IN /\ stats'.unwrappedNodes = stats.unwrappedNodes + Cardinality(unwrapped)
       /\ stats'.strippedLinks = stats.strippedLinks + Cardinality(stripped)
       /\ stats'.removedNodes = stats.removedNodes + Cardinality(removed)
       /\ stats'.emptyNodes = stats.emptyNodes + Cardinality(pruned) + bodyGone
       /\ stats'.removedComments = stats.removedComments + Cardinality(comments)
       /\ stats'.removedAttrs = stats.removedAttrs + AttributesGoneInStep
       /\ \A n \in unwrapped \cup stripped : ChildrenLeftInPlace(n)
       /\ \A n \in removed \cup pruned :
            \A c \in Range(kids[n]) : c \in Range(kids'[n]) \/ c \in GoneInStep
       /\ \A f \in CounterNames : stats'[f] >= stats[f]

C12_CountersOfThisCall ==
  /\ DOMAIN stats = CounterNames
  /\ \A f \in CounterNames : stats[f] \in Nat
  /\ pc \in {"idle", "prepare"} => stats = ZeroStats
  /\ pc = "done" =>
       /\ stats.removedComments = Cardinality({n \in DOMAIN lab : Kind(n) = "comment"})
       /\ stats.unwrappedNodes + stats.strippedLinks + stats.removedNodes + stats.emptyNodes
            = Cardinality({n \in DOMAIN lab : IsEl(n) /\ n # BODY /\ ~HasParent(kids, n)})
                + (IF bodyAttached THEN 0 ELSE 1)
       /\ stats.removedAttrs
            = Cardinality({n \in DOMAIN lab : Len(attrs[n]) = 0 /\ Len(lab[n].attrs) = 1})
                + 2 * Cardinality({n \in DOMAIN lab : Len(attrs[n]) = 0 /\ Len(lab[n].attrs) = 2})
                + Cardinality({n \in DOMAIN lab : Len(attrs[n]) = 1 /\ Len(lab[n].attrs) = 2})

\* C12: the counters are those of this call, and every step counts what it did.
C12_Statistics == []C12_CountersOfThisCall /\ [][C12_StepCounts]_vars

\* A second call has returned, having stripped an anchor and unwrapped another element.
C12_Witness ==
  /\ pc = "done"
  /\ calls = 2
  /\ stats.strippedLinks >= 1
  /\ stats.unwrappedNodes >= 1


(***************************************************************************)
(* C13.  Idempotence of sanitised URLs: when a call has returned, every    *)
(* href or src it sanitised and kept on an element of the output is kept   *)
(* by URL sanitisation again, so a second run on the output with the same  *)
(* options does not remove it.                                             *)
(***************************************************************************)
KeptUrl(n) == GetAttribute(attrs[n], UrlAttr(n))

C13_SanitizedUrlsSurvive ==
  pc = "done" =>
    \A n \in Range(dequeued) :
      (IsEl(n) /\ Tag(n) \in {"a", "img"} /\ n \in Under(kids, BODY) /\ KeptUrl(n) # Null)
        => sanitizeUrl(KeptUrl(n), opts.strictUrls) # Null


(***************************************************************************)
(* C14.  De-duplication by @id across the blocks of one document.          *)
(***************************************************************************)
\* The Recipe nodes the search of a parsed value visits, in the order it visits
\* them, every visit counted.
RECURSIVE Visited(_, _)
Visited(v, contextAllowed) ==
  IF ~IsObject(v) THEN <<>>
  ELSE IF v.k = "arr"
    THEN Flatten([i \in DOMAIN v.a |->
                    Visited(v.a[i], contextAllowed \/ arrayHasSchemaOrgContext(v.a))])
  ELSE IF ~(contextAllowed \/ isSchemaOrgContext(Get(v, "@context"))) THEN <<>>
  ELSE (IF Includes(normalizeType(Get(v, "@type")), "Recipe") THEN <<v>> ELSE <<>>)
         \o (IF Get(v, "@graph").k = "arr"
               THEN Flatten([i \in DOMAIN Get(v, "@graph").a |->
                               Visited(Get(v, "@graph").a[i], TRUE)])
               ELSE <<>>)
         \o Flatten([j \in DOMAIN NestedKeys |->
                       LET value == Get(v, NestedKeys[j])
                       IN IF value.k = "arr"
                            THEN Flatten([i \in DOMAIN value.a |-> Visited(value.a[i], TRUE)])
                            ELSE Visited(value, TRUE)])

\* The Recipe nodes of the first n blocks of the document, in traversal order.
VisitedInBlocks(n) ==
  Flatten([i \in 1..n |-> IF blocks[i].text = "json" THEN Visited(blocks[i].json, FALSE)
                          ELSE <<>>])

HasStringId(node) == Get(node, "@id").k = "str"

\* Of a sequence of nodes, those that are not preceded by a node with the same string @id.
FirstOfEachId(nodes) ==
  LET first == SelectSeq([i \in DOMAIN nodes |-> i],
                         LAMBDA i : HasStringId(nodes[i]) =>
                                      \A j \in 1..(i - 1) :
                                        Get(nodes[j], "@id") # Get(nodes[i], "@id"))
  IN [k \in DOMAIN first |-> nodes[first[k]]]

BlocksDone == IF ldPc = "loop" THEN blockIdx - 1 ELSE Len(blocks)

\* C14: during and after the search, the recipes found are the visited Recipe nodes
\* less those preceded, in any block, by a node with the same string @id: no two
\* share a string @id, the first of each @id is the one kept, every node without a
\* string @id is kept; and the recipes returned are those nodes, normalised.
C14_DedupById ==
  (ldPc \in {"loop", "done"}) =>
    LET visited == VisitedInBlocks(BlocksDone)
    IN /\ recipes = FirstOfEachId(visited)
       /\ \A i, j \in DOMAIN recipes :
            (i # j /\ HasStringId(recipes[i]))
              => Get(recipes[i], "@id") # Get(recipes[j], "@id")
       /\ Len(SelectSeq(recipes, LAMBDA r : ~HasStringId(r)))
            = Len(SelectSeq(visited, LAMBDA r : ~HasStringId(r)))
       /\ ldPc = "done" =>
            /\ Len(extracted) = Len(recipes)
            /\ \A i \in DOMAIN recipes :
                 extracted[i].name = OptionalString(Get(recipes[i], "name"))

\* A document of three blocks has been searched: the second repeats the @id of the
\* first under another name and is dropped, the third has no @id and twice the name
\* of the first and is kept.
C14_Witness ==
  /\ ldPc = "done"
  /\ Len(blocks) = 3
  /\ Len(VisitedInBlocks(3)) = 3
  /\ Len(extracted) = 2
  /\ Get(blocks[1].json, "@id") = Get(blocks[2].json, "@id")
  /\ HasStringId(blocks[1].json)
  /\ Get(blocks[1].json, "name") # Get(blocks[2].json, "name")
  /\ ~HasStringId(blocks[3].json)
  /\ extracted[1].name = extracted[2].name


(***************************************************************************)
(* C15.  A block that fails to parse is isolated.                          *)
(***************************************************************************)
IsMalformed(i) == blocks[i].text = "malformed"

\* The search passes over a malformed block without an error and without touching
\* what the earlier blocks gave.
C15_MalformedSkipped ==
  (ldPc = "loop" /\ blockIdx <= Len(blocks) /\ IsMalformed(blockIdx))
    => /\ ldPc' = "loop"
       /\ blockIdx' = blockIdx + 1
       /\ recipes' = recipes
       /\ seenIds' = seenIds
       /\ blocks' = blocks

\* Every Recipe node of a well-formed block, before or after a malformed one, is
\* among the recipes unless an earlier node had its string @id; and a call only
\* ends in an exception that normalising a recipe threw.
C15_WellFormedReturned ==
  /\ ldPc = "done" =>
       \A i \in DOMAIN blocks :
         blocks[i].text = "json" =>
           \A r \in Range(Visited(blocks[i].json, FALSE)) :
             \/ \E k \in DOMAIN recipes : recipes[k] = r /\ extracted[k] = normalizeJsonLdRecipe(r)
             \/ HasStringId(r) /\ \E k \in DOMAIN recipes : Get(recipes[k], "@id") = Get(r, "@id")
  /\ ldPc = "threw" => \E k \in DOMAIN recipes : normalizeThrows(recipes[k])

\* C15: a script block whose text fails to parse contributes no recipe and raises
\* no error, and the recipes of the well-formed blocks before and after it are
\* returned.
C15_MalformedIsolated == []C15_WellFormedReturned /\ [][C15_MalformedSkipped]_vars

\* A document whose second block of three is malformed has been searched, and the
\* recipes of the first and of the third block are returned.
C15_Witness ==
  /\ ldPc = "done"
  /\ Len(blocks) = 3
  /\ IsMalformed(2)
  /\ blocks[1].text = "json"
  /\ blocks[3].text = "json"
  /\ Len(extracted) = 2
  /\ extracted[1].name = Get(blocks[1].json, "name")
  /\ extracted[2].name = Get(blocks[3].json, "name")


(***************************************************************************)
(* C16.  Discovery of nested Recipe nodes.                                 *)
(***************************************************************************)
\* The nodes at and beneath v through arrays, @graph and the nested keys.
RECURSIVE Beneath(_)
Beneath(v) ==
  IF ~IsObject(v) THEN {}
  ELSE IF v.k = "arr" THEN UNION {Beneath(v.a[i]) : i \in DOMAIN v.a}
  ELSE {v} \cup UNION {Beneath(Get(v, key)) : key \in LinkKeys}

\* The context-allowed nodes at the top of a parsed block.
AllowedTops(v) ==
  IF v.k = "arr"
    THEN {v.a[i] : i \in {j \in DOMAIN v.a :
                            v.a[j].k = "obj" /\ isSchemaOrgContext(Get(v.a[j], "@context"))}}
  ELSE IF v.k = "obj" /\ isSchemaOrgContext(Get(v, "@context")) THEN {v}
  ELSE {}

IsRecipe(node) == Includes(normalizeType(Get(node, "@type")), "Recipe")

\* C16: when the search has returned, every Recipe-typed node nested at any depth
\* beneath a context-allowed node through arrays, @graph or one of the nested keys
\* is among the recipes (or a node with its string @id is).
C16_NestedExtracted ==
  ldPc = "done" =>
    \A i \in DOMAIN blocks :
      blocks[i].text = "json" =>
        \A top \in AllowedTops(blocks[i].json) :
          \A r \in Beneath(top) :
            IsRecipe(r) =>
              \/ r \in Range(recipes)
              \/ HasStringId(r) /\ \E k \in DOMAIN recipes : Get(recipes[k], "@id") = Get(r, "@id")


(***************************************************************************)
(* C17.  Flattening of recipeInstructions.                                 *)
(***************************************************************************)
\* A text as cleaning leaves it: no zero-width character, no whitespace but single
\* spaces inside, no marker or space in front, no space at the end.
IsCleaned(t) ==
  /\ \A i \in DOMAIN t : ~IsZeroWidth(t[i]) /\ (IsSpace(t[i]) => t[i] = " ")
  /\ \A i \in 1..(Len(t) - 1) : ~(IsSpace(t[i]) /\ IsSpace(t[i + 1]))
  /\ t # <<>> => ~IsMarker(t[1]) /\ ~IsSpace(t[1]) /\ ~IsSpace(t[Len(t)])

\* The entry a text gives: itself cleaned, or nothing when that is empty.
Entry(t) == IF cleanText(t) = <<>> THEN <<>> ELSE <<cleanText(t)>>

IsContainer(v) ==
  /\ v.k = "obj"
  /\ Truthy(Get(v, "itemListElement"))
  /\ \/ ~Has(v, "@type")
     \/ Get(v, "@type") \in {JStr(<<"HowToSection">>), JStr(<<"ItemList">>)}

\* A HowToStep with a name and sub-items but no text is written as one combined line.
IsCombinedStep(v) ==
  /\ v.k = "obj"
  /\ Get(v, "@type") = JStr(<<"HowToStep">>)
  /\ Truthy(Get(v, "name"))
  /\ Truthy(Get(v, "itemListElement"))

\* What flattening v gives, by the kind of v, from what flattening its parts gives.
FlattenedInOrder(v, list) ==
  CASE v.k = "str" -> list = Entry(v.s)
    [] v.k = "arr" ->
         list = Flatten([i \in DOMAIN v.a |-> flattenInstructions(v.a[i]).out])
    [] IsContainer(v) ->
         list = flattenInstructions(Get(v, "itemListElement")).out
    [] v.k = "obj" /\ ~IsContainer(v) /\ Get(v, "text").k = "str" ->
         list = Entry(Get(v, "text").s)
    [] v.k = "obj" /\ ~IsContainer(v) /\ Get(v, "text").k # "str" /\ IsCombinedStep(v) ->
         Len(list) <= 1
    [] v.k = "obj" /\ ~IsContainer(v) /\ Get(v, "text").k # "str" /\ ~IsCombinedStep(v)
         /\ Get(v, "name").k = "str" ->
         list = Entry(Get(v, "name").s)
    [] OTHER -> list = <<>>

\* C17: the instructions of every returned recipe are the flattening of its
\* recipeInstructions depth-first in source order (a string, the entries of an
\* array one after the other, the elements of an itemListElement container, the
\* text of an object, else its name), and every entry is a cleaned, non-empty
\* string, empty ones having been discarded.
C17_InstructionsFlattened ==
  ldPc = "done" =>
    \A k \in DOMAIN extracted :
      LET v == Get(recipes[k], "recipeInstructions")
          list == extracted[k].recipeInstructions
      IN /\ \A i \in DOMAIN list : list[i] # <<>> /\ IsCleaned(list[i])
         /\ FlattenedInOrder(v, list)
         /\ v.k = "arr" =>
              \A i \in DOMAIN v.a :
                FlattenedInOrder(v.a[i], flattenInstructions(v.a[i]).out)
         /\ IsContainer(v) =>
              FlattenedInOrder(Get(v, "itemListElement"),
                               flattenInstructions(Get(v, "itemListElement")).out)

\* A recipe has been returned whose instructions were an array of a string that
\* is empty after cleaning and a step with a name: the one entry is that name.
C17_Witness ==
  /\ ldPc = "done"
  /\ Len(extracted) = 1
  /\ LET v == Get(recipes[1], "recipeInstructions")
     IN /\ v.k = "arr"
        /\ Len(v.a) = 2
        /\ v.a[1].k = "str"
        /\ v.a[1].s # <<>>
        /\ v.a[2].k = "obj"
        /\ Get(v.a[2], "name").k = "str"
        /\ extracted[1].recipeInstructions = <<cleanText(Get(v.a[2], "name").s)>>


(***************************************************************************)
(* C18.  Which ingredient list is returned.                                *)
(***************************************************************************)
\* C18: the ingredients of every returned recipe are the normalised
\* recipeIngredient list when that is non-empty and the normalised legacy
\* ingredients list otherwise, never entries of both, and every one of them is a
\* cleaned, non-empty string.
C18_IngredientSource ==
  ldPc = "done" =>
    \A k \in DOMAIN extracted :
      LET current == normalizeRecipeIngredients(Get(recipes[k], "recipeIngredient"))
          legacy == normalizeRecipeIngredients(Get(recipes[k], "ingredients"))
          list == extracted[k].recipeIngredients
      IN /\ current # <<>> => list = current
         /\ current = <<>> => list = legacy
         /\ \A i \in DOMAIN list : list[i] # <<>> /\ IsCleaned(list[i])
         /\ \A i \in DOMAIN current : current[i] # <<>> /\ IsCleaned(current[i])
         /\ \A i \in DOMAIN legacy : legacy[i] # <<>> /\ IsCleaned(legacy[i])

\* A recipe with both lists non-empty has been returned with the recipeIngredient
\* list alone, of which an entry that is empty after cleaning was left out.
C18_Witness ==
  /\ ldPc = "done"
  /\ Len(extracted) = 1
  /\ Get(recipes[1], "recipeIngredient").k = "arr"
  /\ Len(Get(recipes[1], "recipeIngredient").a) = 2
  /\ Len(extracted[1].recipeIngredients) = 1
  /\ Len(normalizeRecipeIngredients(Get(recipes[1], "ingredients"))) = 2
  /\ extracted[1].recipeIngredients
       # normalizeRecipeIngredients(Get(recipes[1], "ingredients"))

\* A recipe whose recipeIngredient list is present but empty after normalising has
\* been returned with the legacy list.
C18_WitnessLegacy ==
  /\ ldPc = "done"
  /\ Len(extracted) = 1
  /\ Get(recipes[1], "recipeIngredient").k = "arr"
  /\ Len(Get(recipes[1], "recipeIngredient").a) = 2
  /\ Len(extracted[1].recipeIngredients) = 2
  /\ extracted[1].recipeIngredients
       = normalizeRecipeIngredients(Get(recipes[1], "ingredients"))
  /\ normalizeRecipeIngredients(Get(recipes[1], "recipeIngredient")) = <<>>


(***************************************************************************)
(* C19.  Blank lines of the minimal text.                                  *)
(***************************************************************************)
\* The lines of the text returned.
OutLines == IF mtOut = <<>> THEN <<>> ELSE SplitLines(mtOut)

\* The groups, each written line after line, with one blank line between two.
GroupsOneBlankApart ==
  JoinWith([g \in DOMAIN mtGroups |-> JoinWith(mtGroups[g], <<"\n">>)], <<"\n", "\n">>)

\* C19: with the default options, the text returned has exactly one blank line
\* between consecutive groups that emitted text, nowhere two blank lines in a row
\* and no blank line first or last, whether or not some blocks emitted nothing.
C19_BlankLinePolicy ==
  (mtPc = "done" /\ mtOpts = DEFAULT_OPTIONS) =>
    /\ mtOut = GroupsOneBlankApart
    /\ \A g \in DOMAIN mtGroups :
         mtGroups[g] # <<>> /\ \A i \in DOMAIN mtGroups[g] : Trim(mtGroups[g][i]) # <<>>
    /\ \A i \in 1..(Len(OutLines) - 1) : ~(OutLines[i] = <<>> /\ OutLines[i + 1] = <<>>)
    /\ OutLines # <<>> => OutLines[1] # <<>> /\ OutLines[Len(OutLines)] # <<>>

\* A body of three blocks has been rendered of which the second emitted nothing:
\* the lines of the first and of the third are one blank line apart.
C19_Witness ==
  /\ mtPc = "done"
  /\ mtOpts = DEFAULT_OPTIONS
  /\ Len(mtKids) = 3
  /\ \A i \in 1..3 : IsElement(mtKids[i]) /\ isBlockElement(mtKids[i])
  /\ handleBlock(<<>>, mtOpts, mtKids[2]) = <<>>
  /\ Len(mtGroups) = 2
  /\ Len(mtGroups[1]) = 2
  /\ Len(OutLines) = 4
  /\ OutLines[3] = <<>>


(***************************************************************************)
(* C20.  Lists in the minimal text.                                        *)
(***************************************************************************)
IsList(node) == node.t \in {"ul", "ol"}

\* The text of the child nodes of an item that are not its nested lists.
OwnText(li) ==
  Flatten([i \in DOMAIN li.c |-> IF IsList(li.c[i]) THEN <<>> ELSE textFromInline(li.c[i])])

NestedLists(li) == SelectSeq(li.c, LAMBDA child : IsList(child))

ListItems(list) == SelectSeq(list.c, LAMBDA child : child.t = "li")

Bullet(text) == mtOpts.listMarker \o <<" ">> \o text

\* The non-blank parts of a text between its line breaks, each normalised.
Parts(text) ==
  SelectSeq([i \in DOMAIN SplitLines(text) |-> normalizeInline(SplitLines(text)[i])],
            LAMBDA part : part # <<>>)

\* The lines of a list if every item wrote its own text as one bullet line.
RECURSIVE OneLineEach(_)
OneLineEach(list) ==
  Flatten([i \in DOMAIN ListItems(list) |->
             LET li == ListItems(list)[i]
             IN (IF normalizeInline(OwnText(li)) = <<>> THEN <<>>
                 ELSE <<Bullet(normalizeInline(OwnText(li)))>>)
                  \o Flatten([j \in DOMAIN NestedLists(li) |-> OneLineEach(NestedLists(li)[j])])])

\* The lines of a list when every item writes the parts of its own text line by
\* line, the first as a bullet line.
RECURSIVE FirstPartBulleted(_)
FirstPartBulleted(list) ==
  Flatten([i \in DOMAIN ListItems(list) |->
             LET li == ListItems(list)[i]
                 parts == Parts(OwnText(li))
             IN [k \in DOMAIN parts |-> IF k = 1 THEN Bullet(parts[k]) ELSE parts[k]]
                  \o Flatten([j \in DOMAIN NestedLists(li) |->
                                FirstPartBulleted(NestedLists(li)[j])])])

\* A call has returned the text of a body that is one list.
ListRendered == mtPc = "done" /\ Len(mtKids) = 1 /\ IsList(mtKids[1])

\* C20 as claimed: each li of a list emits its own direct inline text, nested lists
\* excluded, as a line prefixed with the list marker, followed at once by the
\* bullet lines of its nested lists, in document order, without indentation and
\* without a blank line between the items.
C20_ItemIsOneBulletLine ==
  ListRendered =>
    /\ OutLines = OneLineEach(mtKids[1])
    /\ \A i \in DOMAIN OutLines :
         /\ Len(OutLines[i]) > Len(Bullet(<<>>))
         /\ SubSeq(OutLines[i], 1, Len(Bullet(<<>>))) = Bullet(<<>>)

\* C20 as amended: each li of a list emits the non-blank parts of its own direct
\* inline text between line breaks, nested lists excluded, one line per part, the
\* first prefixed with the list marker and the others bare, followed at once by
\* the lines of its nested lists, in document order, without indentation and
\* without a blank line between the items.
C20_ListMapping ==
  ListRendered =>
    /\ OutLines = FirstPartBulleted(mtKids[1])
    /\ \A i \in DOMAIN OutLines : OutLines[i] # <<>> /\ ~IsSpace(OutLines[i][1])
    /\ \A i \in 1..(Len(mtLines) - 1) : mtLines[i] # <<>>

\* A list has been rendered whose first item holds text, a line break, more text
\* and a nested list: its second line is bare, its third the nested bullet line.
C20_Witness ==
  /\ ListRendered
  /\ LET li == ListItems(mtKids[1])[1]
     IN /\ Len(Parts(OwnText(li))) = 2
        /\ Len(NestedLists(li)) = 1
        /\ Len(OutLines) >= 4
        /\ OutLines[1] = Bullet(Parts(OwnText(li))[1])
        /\ OutLines[2] = Parts(OwnText(li))[2]
        /\ SubSeq(OutLines[3], 1, Len(Bullet(<<>>))) = Bullet(<<>>)


\* ------------------------------------------------------------ C23
\* The text nodes the parser made (not the separators), in document order.
TextOrder(k) == SelectSeq(Below(k, BODY), LAMBDA n : n > 0 /\ Kind(n) = "text")

\* The nodes the parser made (not the separators), in document order.
NodeOrder(k) == SelectSeq(Below(k, BODY), LAMBDA n : n > 0)

\* The nodes under body that one iteration of the pass took out.
TakenOut == Under(kids, BODY) \ Under(kids', BODY)

(***************************************************************************)
(* C23: one iteration of the unwrap/attribute pass takes at most the       *)
(* dequeued element out of the document; all other parsed nodes stay in    *)
(* their document order (the children of an unwrapped element stand where  *)
(* it stood), so the sequence of parsed text nodes under body is the same  *)
(* before and after; only separators are new.                              *)
(***************************************************************************)
C23_UnwrapKeepsOrder ==
  [][(pc = "bfs" /\ pc' = "bfs") =>
       /\ TakenOut \subseteq {Head(queue)}
       /\ \A n \in TakenOut : IsEl(n)
       /\ NodeOrder(kids') = SelectSeq(NodeOrder(kids), LAMBDA n : n \notin TakenOut)
       /\ TextOrder(kids') = TextOrder(kids)
       /\ \A n \in Under(kids', BODY) \ Under(kids, BODY) : n < 0]_vars

\* An element with a text child and a text node after it has been unwrapped.
C23_Witness ==
  /\ pc = "bfs"
  /\ \E el \in Range(dequeued) :
       /\ IsEl(el) /\ el # BODY
       /\ el \notin Under(kids, BODY)
       /\ \E c \in Range(kids0[el]) : Kind(c) = "text" /\ c \in Under(kids, BODY)
       /\ \E t \in Under(kids, BODY) : t > el /\ Kind(t) = "text" /\ t \notin Under(kids0, el)


\* ------------------------------------------------------------ C24
\* el contains text: its textContent, zero-width characters aside, is not blank.
ContainsText(k, el) ==
  Len(Trim(SelectSeq(TextContent(k, el), LAMBDA c : c \notin ZeroWidth))) > 0

\* An img the whitelist allows and whose src the attribute pass kept.
IsKeptImg(a, n) ==
  /\ IsEl(n) /\ Tag(n) = "img" /\ "img" \in AllowedTags
  /\ GetAttribute(a[n], "src") \notin {Null, <<>>}

(***************************************************************************)
(* C24: an iteration of the empty-element loop takes out of the document   *)
(* only an element that contains no text, and no img that is allowed and   *)
(* has a kept src leaves the document with it.                             *)
(***************************************************************************)
C24_PruneKeepsContent ==
  [][(pc = "prune" /\ pc' = "prune") =>
       \A n \in TakenOut :
         /\ n = allEls[idx] => ~ContainsText(kids, n)
         /\ ~IsKeptImg(attrs, n)]_vars


\* ------------------------------------------------------------ C26
\* The while loop of the unwrap/attribute pass has ended.
PassEnded == pc = "bfs" /\ ~(queue # <<>> /\ WithinBudget)

\* How often the pass shifted n off its queue.
TimesDequeued(n) == Cardinality({i \in DOMAIN dequeued : dequeued[i] = n})

(***************************************************************************)
(* C26: when the unwrap/attribute pass ends and maxDepth was at least the  *)
(* number of nodes under body, each element then under body has been       *)
(* dequeued exactly once.                                                  *)
(***************************************************************************)
C26_EachElementDequeuedOnce ==
  (PassEnded /\ opts.maxDepth >= Cardinality(Under(kids0, BODY))) =>
     \A n \in Under(kids, BODY) : IsEl(n) => TimesDequeued(n) = 1


\* ------------------------------------------------------------ C30
\* The root node of a block's JSON, or the elements of its root-level array.
RootNodes(v) ==
  IF v.k = "arr" THEN {v.a[i] : i \in DOMAIN v.a} ELSE {v}

\* node has an @context of its own that does not resolve to Schema.org.
HasForeignContext(node) ==
  /\ node.k = "obj"
  /\ Has(node, "@context")
  /\ ~isSchemaOrgContext(Get(node, "@context"))

(***************************************************************************)
(* C30: a Recipe node at the root of a block, or in its root-level array,  *)
(* whose own @context is not Schema.org, is not among the recipes found,   *)
(* whatever its siblings in the array carry.                               *)
(***************************************************************************)
C30_ForeignRootNotExtracted ==
  \A i \in 1..BlocksDone :
    blocks[i].text = "json" =>
      \A node \in RootNodes(blocks[i].json) :
        (HasForeignContext(node) /\ IsRecipe(node)) => node \notin Range(recipes)


\* ------------------------------------------------------------ semaphore
(***************************************************************************)
(* semaphore.ts.  JavaScript runs acquire() and release() to completion,   *)
(* one at a time; a queued closure is identified with the caller whose     *)
(* promise it resolves.  semState and semPending record the callers' side: *)
(* who holds a release function not yet invoked, and whose acquire() is    *)
(* pending, in call order.                                                 *)
(***************************************************************************)

\* new Semaphore(maxConcurrentJobs), server.ts line 10
SemConstruct(m) ==
  /\ semMax = 0
  /\ semMax' = m
  /\ semActive' = 0
  /\ semQueue' = <<>>
  /\ UNCHANGED <<semState, semPending, semLast>>

HasFreePermitOffByOne == semActive <= semMax

\* this.active < this.max, line 8
HasFreePermit == semActive < semMax

\* acquire(), lines 7-19, called by c
SemAcquire(c) ==
  /\ semMax > 0
  /\ semState[c] = "idle"
  /\ IF HasFreePermit
       THEN /\ semActive' = semActive + 1
            /\ semState' = [semState EXCEPT ![c] = "holding"]
            /\ UNCHANGED <<semQueue, semPending>>
       ELSE /\ semQueue' = Append(semQueue, c)
            /\ semState' = [semState EXCEPT ![c] = "queued"]
            /\ semPending' = Append(semPending, c)
            /\ UNCHANGED semActive
  /\ UNCHANGED <<semMax, semLast>>

ShiftNewest(q) == [next |-> q[Len(q)], rest |-> SubSeq(q, 1, Len(q) - 1)]

\* this.queue.shift(), line 23, on a queue that is not empty
Shift(q) == [next |-> Head(q), rest |-> Tail(q)]

\* release(), lines 21-25, through the release function of holder c; the
\* closure shifted off the queue runs at once: active++ and resolve
SemRelease(c) ==
  /\ semState[c] = "holding"
  /\ IF semQueue = <<>>
       THEN /\ semActive' = semActive - 1
            /\ semState' = [semState EXCEPT ![c] = "idle"]
            /\ UNCHANGED <<semQueue, semPending, semLast>>
       ELSE LET sh == Shift(semQueue)
            IN /\ semActive' = (semActive - 1) + 1
               /\ semQueue' = sh.rest
               /\ semState' = [semState EXCEPT ![c] = "idle", ![sh.next] = "holding"]
               /\ semPending' = Without(semPending, sh.next)
               /\ semLast' = sh.next
  /\ UNCHANGED semMax

\* The server starts with MAX_CONCURRENT_JOBS = m.
ServerStarts ==
  \E m \in 1..MaxPermits : SemConstruct(m) /\ UNCHANGED notSemVars

CallerAcquires == \E c \in SemCallers : SemAcquire(c) /\ UNCHANGED notSemVars

HolderReleases(c) == SemRelease(c) /\ UNCHANGED notSemVars

SemNext ==
  \/ ServerStarts
  \/ CallerAcquires
  \/ \E c \in SemCallers : HolderReleases(c)

SemSpec == Init /\ [][SemNext]_vars

\* Every holder of a permit eventually invokes its release function.
SemFairSpec == SemSpec /\ \A c \in SemCallers : WF_vars(HolderReleases(c))

\* ------------------------------------------------------------ C22
\* The callers holding a release function they have not invoked.
Holders == {c \in SemCallers : semState[c] = "holding"}

(***************************************************************************)
(* C22: at every moment at most max callers hold a permit they have not    *)
(* released (active counts exactly those callers).                         *)
(***************************************************************************)
C22_ConcurrencyLimit ==
  semMax > 0 => (Cardinality(Holders) <= semMax /\ semActive = Cardinality(Holders))

\* All permits are out and a further caller waits.
C22_Witness ==
  /\ semMax >= 2
  /\ Cardinality(Holders) = semMax
  /\ Len(semQueue) >= 1

\* ------------------------------------------------------------ C29
\* A step in which c obtains a permit.
Granted(c) == semState[c] # "holding" /\ semState'[c] = "holding"

(***************************************************************************)
(* C29: whoever obtains a permit while acquire() calls are pending is the  *)
(* caller of the oldest pending call; and, every holder releasing          *)
(* eventually, every pending acquire() eventually resolves.                *)
(***************************************************************************)
C29_Fairness ==
  /\ [][\A c \in SemCallers :
          (Granted(c) /\ semPending # <<>>) => c = Head(semPending)]_vars
  /\ \A c \in SemCallers : (semState[c] = "queued") ~> (semState[c] = "holding")

\* A release has just resolved the oldest pending acquire(); a later one is
\* still pending.
C29_Witness ==
  /\ semLast # 0
  /\ semState[semLast] = "holding"
  /\ semPending # <<>>
  /\ semActive = semMax


\* ------------------------------------------------------------ browser pool
(***************************************************************************)
(* BrowserPool.ts, lines 31-110.  A browser is the number of its launch.   *)
(* The array index of the code is 0-based: entry i of the code is          *)
(* poolBrowsers[i + 1].                                                    *)
(***************************************************************************)
\* launch(), lines 80-101: the entry of a new browser
Launched(n) == [browser |-> n, alive |-> TRUE, pending |-> FALSE]

\* init(), lines 44-48, with this.size = size
PoolInit(size) ==
  /\ poolPc = "new"
  /\ poolPc' = "ready"
  /\ poolBrowsers' = [i \in 1..size |-> Launched(i)]
  /\ poolLaunched' = size
  /\ UNCHANGED <<poolIndex, poolResult>>

\* The entries the loop of acquire() looks at, in its order (0-based).
Probes == [j \in 1..Len(poolBrowsers) |-> (poolIndex + (j - 1)) % Len(poolBrowsers)]

FirstUsableIgnoringAlive == {j \in DOMAIN Probes : j = 1}

\* The iterations of the loop at which it would return.
FirstUsable ==
  {j \in DOMAIN Probes :
     /\ poolBrowsers[Probes[j] + 1].alive
     /\ \A h \in 1..(j - 1) : ~poolBrowsers[Probes[h] + 1].alive}

\* acquire(), lines 55-64: what it returns or throws, and index afterwards
acquire ==
  IF FirstUsable = {}
    THEN [kind |-> "threw", browser |-> 0,
          \* index has advanced length times: it is back where it was
          index |-> IF poolBrowsers = <<>> THEN poolIndex
                    ELSE (poolIndex + Len(poolBrowsers)) % Len(poolBrowsers)]
    ELSE LET j == CHOOSE h \in FirstUsable : TRUE
         IN [kind |-> "browser", browser |-> poolBrowsers[Probes[j] + 1].browser,
             index |-> (Probes[j] + 1) % Len(poolBrowsers)]

\* A caller calls acquire().
PoolAcquire ==
  /\ poolPc = "ready"
  /\ poolResult = NoBrowser
  /\ poolResult' = [kind |-> acquire.kind, browser |-> acquire.browser]
  /\ poolIndex' = acquire.index
  /\ UNCHANGED <<poolPc, poolBrowsers, poolLaunched>>

\* The caller of acquire() has the browser or the error.
PoolTaken ==
  /\ poolResult # NoBrowser
  /\ poolResult' = NoBrowser
  /\ UNCHANGED <<poolPc, poolBrowsers, poolIndex, poolLaunched>>

\* The 'disconnected' handler of entry i up to its first await, lines 87-93
PoolDisconnected(i) ==
  /\ poolPc = "ready"
  /\ i \in DOMAIN poolBrowsers
  /\ poolBrowsers[i].alive
  /\ poolBrowsers' = [poolBrowsers EXCEPT ![i].alive = FALSE, ![i].pending = TRUE]
  /\ UNCHANGED <<poolPc, poolIndex, poolLaunched, poolResult>>

\* replacePooledBrowser, lines 73-78, for the dead entry i: launch() resolves
\* and the new entry takes its place, or launch() rejects
PoolReplaced(i, ok) ==
  /\ i \in DOMAIN poolBrowsers
  /\ poolBrowsers[i].pending
  /\ IF ok
       THEN /\ poolLaunched < Len(poolBrowsers) + MaxRelaunches
            /\ poolLaunched' = poolLaunched + 1
            /\ poolBrowsers' = [poolBrowsers EXCEPT ![i] = Launched(poolLaunched + 1)]
       ELSE /\ poolBrowsers' = [poolBrowsers EXCEPT ![i].pending = FALSE]
            /\ UNCHANGED poolLaunched
  /\ UNCHANGED <<poolPc, poolIndex, poolResult>>

PoolStarts == \E size \in 0..MaxBrowsers : PoolInit(size) /\ UNCHANGED notPoolVars

PoolAcquires == PoolAcquire /\ UNCHANGED notPoolVars

PoolCallerTakes == PoolTaken /\ UNCHANGED notPoolVars

BrowserDisconnects == \E i \in 1..MaxBrowsers : PoolDisconnected(i) /\ UNCHANGED notPoolVars

BrowserReplaced ==
  \E i \in 1..MaxBrowsers : \E ok \in BOOLEAN : PoolReplaced(i, ok) /\ UNCHANGED notPoolVars

PoolNext ==
  \/ PoolStarts
  \/ PoolAcquires
  \/ PoolCallerTakes
  \/ BrowserDisconnects
  \/ BrowserReplaced

PoolSpec == Init /\ [][PoolNext]_vars

\* ------------------------------------------------------------ C25
\* The 0-based positions of the alive entries.
AlivePositions == {i \in 0..(Len(poolBrowsers) - 1) : poolBrowsers[i + 1].alive}

\* How far position i is from index, going round the pool.
Distance(i) == (i - poolIndex + Len(poolBrowsers)) % Len(poolBrowsers)

\* A step in which acquire() returns or throws.
AcquireEnds == poolResult = NoBrowser /\ poolResult' # NoBrowser

(***************************************************************************)
(* C25: acquire() returns the browser of the alive entry nearest to index  *)
(* going round the pool, and moves index just behind it; it throws only    *)
(* when no entry is alive.                                                 *)
(***************************************************************************)
C25_RoundRobinAlive ==
  [][AcquireEnds =>
       IF AlivePositions = {}
         THEN poolResult'.kind = "threw"
         ELSE /\ poolResult'.kind = "browser"
              /\ \E i \in AlivePositions :
                   /\ poolResult'.browser = poolBrowsers[i + 1].browser
                   /\ \A h \in AlivePositions : Distance(i) <= Distance(h)
                   /\ poolIndex' = (i + 1) % Len(poolBrowsers)]_vars

\* acquire() has skipped a dead entry and returned the browser behind it.
C25_Witness ==
  /\ poolResult.kind = "browser"
  /\ Len(poolBrowsers) >= 3
  /\ \E i \in DOMAIN poolBrowsers :
       /\ poolBrowsers[i].browser = poolResult.browser
       /\ poolBrowsers[i].alive
       /\ poolIndex = i % Len(poolBrowsers)
       /\ i > 1 /\ ~poolBrowsers[i - 1].alive
       /\ \E h \in DOMAIN poolBrowsers : h # i /\ poolBrowsers[h].alive


\* ------------------------------------------------------------ POST /render
(***************************************************************************)
(* routes/render.ts, lines 19-59.  The handler is an async function: each  *)
(* action is the code between two awaits.  What the browser does (a        *)
(* context or page that cannot be created, a navigation that fails or      *)
(* times out, a close that fails) is the environment's choice.             *)
(***************************************************************************)
\* Requests in flight at most.
MaxRequests == 2

\* Largest pool the handler runs against.
MaxRenderBrowsers == 1

Requests == 1..MaxRequests

\* server.ts lines 9-13: pool and semaphore are constructed, init() completes
ServerBoots ==
  /\ \E m \in 1..MaxPermits : SemConstruct(m)
  /\ \E size \in 0..MaxRenderBrowsers : PoolInit(size)
  /\ UNCHANGED <<documentVars, rqVars, toVars, cuVars>>

Listening == semMax > 0 /\ poolPc = "ready"

\* A request arrives: line 20 calls semaphore.acquire() and awaits it.
RqPost(r) ==
  /\ Listening
  /\ rqPc[r] = "idle"
  /\ SemAcquire(r)
  /\ rqPc' = [rqPc EXCEPT ![r] = "acquire"]
  /\ UNCHANGED <<documentVars, poolVars, toVars, cuVars, rqReleases>>

\* The await of line 20 resumes with the release function; line 21 calls
\* browserPool.acquire(), lines 23-25 call browser.newContext().
RqAcquired(r) ==
  /\ rqPc[r] = "acquire"
  /\ semState[r] = "holding"
  /\ poolIndex' = acquire.index
  /\ rqPc' = [rqPc EXCEPT ![r] = IF acquire.kind = "threw" THEN "rejected" ELSE "newContext"]
  /\ UNCHANGED <<documentVars, semVars, toVars, cuVars, poolPc, poolBrowsers, poolLaunched,
                 poolResult, rqReleases>>

\* newContext() settles; line 27 calls context.newPage().
RqContext(r, ok) ==
  /\ rqPc[r] = "newContext"
  /\ rqPc' = [rqPc EXCEPT ![r] = IF ok THEN "newPage" ELSE "rejected"]
  /\ UNCHANGED <<documentVars, semVars, poolVars, toVars, cuVars, rqReleases>>

\* newPage() settles; the try block starts: lines 31-43 check the url and call
\* page.goto(), or throw into the catch block, and finally calls context.close().
RqPage(r, ok, validUrl) ==
  /\ rqPc[r] = "newPage"
  /\ rqPc' = [rqPc EXCEPT ![r] = IF ~ok THEN "rejected"
                                 ELSE IF validUrl THEN "goto" ELSE "close"]
  /\ UNCHANGED <<documentVars, semVars, poolVars, toVars, cuVars, rqReleases>>

\* page.goto() settles: line 44 calls page.content(), or catch and finally run.
RqGoto(r, ok) ==
  /\ rqPc[r] = "goto"
  /\ rqPc' = [rqPc EXCEPT ![r] = IF ok THEN "content" ELSE "close"]
  /\ UNCHANGED <<documentVars, semVars, poolVars, toVars, cuVars, rqReleases>>

\* page.content() settles: the response is sent (lines 45-49, or the catch
\* block), and finally calls context.close().
RqContent(r) ==
  /\ rqPc[r] = "content"
  /\ rqPc' = [rqPc EXCEPT ![r] = "close"]
  /\ UNCHANGED <<documentVars, semVars, poolVars, toVars, cuVars, rqReleases>>

ReleaseSkipped(r) == UNCHANGED <<semVars, rqReleases>>

\* release() of line 57
ReleaseCalled(r) ==
  /\ SemRelease(r)
  /\ rqReleases' = [rqReleases EXCEPT ![r] = @ + 1]

\* context.close() settles (line 56): release() runs, or the handler rejects.
RqClosed(r, ok) ==
  /\ rqPc[r] = "close"
  /\ IF ok THEN ReleaseCalled(r) ELSE ReleaseSkipped(r)
  /\ rqPc' = [rqPc EXCEPT ![r] = IF ok THEN "done" ELSE "rejected"]
  /\ UNCHANGED <<documentVars, poolVars, toVars, cuVars>>

\* A request that was served is forgotten.
RqForgotten(r) ==
  /\ rqPc[r] = "done"
  /\ rqPc' = [rqPc EXCEPT ![r] = "idle"]
  /\ rqReleases' = [rqReleases EXCEPT ![r] = 0]
  /\ UNCHANGED <<documentVars, semVars, poolVars, toVars, cuVars>>

RequestArrives == \E r \in Requests : RqPost(r)

AcquireResumes == \E r \in Requests : RqAcquired(r)

ContextSettles == \E r \in Requests : \E ok \in BOOLEAN : RqContext(r, ok)

PageSettles == \E r \in Requests : \E ok \in BOOLEAN : \E validUrl \in BOOLEAN : RqPage(r, ok, validUrl)

GotoSettles == \E r \in Requests : \E ok \in BOOLEAN : RqGoto(r, ok)

ContentSettles == \E r \in Requests : RqContent(r)

CloseSettles == \E r \in Requests : \E ok \in BOOLEAN : RqClosed(r, ok)

RequestForgotten == \E r \in Requests : RqForgotten(r)

RenderNext ==
  \/ ServerBoots
  \/ RequestArrives
  \/ AcquireResumes
  \/ ContextSettles
  \/ PageSettles
  \/ GotoSettles
  \/ ContentSettles
  \/ CloseSettles
  \/ RequestForgotten
  \/ BrowserDisconnects
  \/ BrowserReplaced

RenderSpec == Init /\ [][RenderNext]_vars

\* ------------------------------------------------------------ C27
\* The handler of r has ended: it returned, or its promise rejected.
HandlerEnded(r) == rqPc[r] \in {"done", "rejected"}

(***************************************************************************)
(* C27: a request whose handler has ended has called release() exactly     *)
(* once (every request acquires its permit before anything else), and its  *)
(* permit is no longer held.                                               *)
(***************************************************************************)
C27_ReleasedExactlyOnce ==
  \A r \in Requests :
    HandlerEnded(r) => (rqReleases[r] = 1 /\ semState[r] # "holding")


\* ------------------------------------------------------------ hard timeout
(***************************************************************************)
(* withHardTimeout.ts.  A promise reaction runs as a microtask, before the *)
(* next timer callback: when the race settles, the finally block of lines  *)
(* 22-24 runs before any timer can fire, so settling, clearTimeout and the *)
(* settling of the returned promise are one step.                          *)
(***************************************************************************)
\* The returned promise follows the race, which the task has settled.
SettledByTask(state) == IF state = "fulfilled" THEN "value" ELSE "error"

\* withHardTimeout(task, timeoutMs, onTimeout) is called, lines 6-21; task is
\* pending or has settled already.
ToCall(k, state) ==
  /\ toResult[k] = "none"
  /\ toTask' = [toTask EXCEPT ![k] = state]
  /\ toOnTimeout' = [toOnTimeout EXCEPT ![k] = "none"]
  /\ IF state = "pending"
       THEN /\ toTimer' = [toTimer EXCEPT ![k] = "armed"]
            /\ toResult' = [toResult EXCEPT ![k] = "pending"]
       ELSE /\ toTimer' = [toTimer EXCEPT ![k] = "cleared"]
            /\ toResult' = [toResult EXCEPT ![k] = SettledByTask(state)]

\* The task settles; if the race (line 21) is still open it settles with it,
\* and the finally block clears the timer (a timer that has fired stays so).
ToTaskSettles(k, state) ==
  /\ toTask[k] = "pending"
  /\ toTask' = [toTask EXCEPT ![k] = state]
  /\ IF toResult[k] = "pending"
       THEN /\ toResult' = [toResult EXCEPT ![k] = SettledByTask(state)]
            /\ toTimer' = [toTimer EXCEPT ![k] = IF @ = "armed" THEN "cleared" ELSE @]
       ELSE UNCHANGED <<toResult, toTimer>>
  /\ UNCHANGED toOnTimeout

\* timeoutMs have passed: the callback of lines 9-17 starts and calls onTimeout().
ToTimerFires(k) ==
  /\ toTimer[k] = "armed"
  /\ toTimer' = [toTimer EXCEPT ![k] = "fired"]
  /\ toOnTimeout' = [toOnTimeout EXCEPT ![k] = "running"]
  /\ UNCHANGED <<toTask, toResult>>

\* reject(new Error('Hard timeout exceeded')), line 16, settles the race if
\* it is still open.
Rejects(k) == toResult[k] = "pending"

\* onTimeout() returns or throws (lines 10-15); then line 16 runs.
ToOnTimeoutSettles(k, ok) ==
  /\ toOnTimeout[k] = "running"
  /\ toOnTimeout' = [toOnTimeout EXCEPT ![k] = IF ok THEN "returned" ELSE "threw"]
  /\ toResult' = [toResult EXCEPT ![k] = IF Rejects(k) THEN "timeout" ELSE @]
  /\ UNCHANGED <<toTask, toTimer>>

\* Nothing of call k is left running; its caller drops the result.
ToForgotten(k) ==
  /\ toResult[k] \notin {"none", "pending"}
  /\ toTask[k] # "pending"
  /\ toOnTimeout[k] # "running"
  /\ toTask' = [toTask EXCEPT ![k] = "none"]
  /\ toTimer' = [toTimer EXCEPT ![k] = "none"]
  /\ toOnTimeout' = [toOnTimeout EXCEPT ![k] = "none"]
  /\ toResult' = [toResult EXCEPT ![k] = "none"]

TimeoutCalled ==
  \E k \in TimeoutCalls : \E state \in {"pending", "fulfilled", "rejected"} :
    ToCall(k, state) /\ UNCHANGED notToVars

TaskSettles ==
  \E k \in TimeoutCalls : \E state \in {"fulfilled", "rejected"} :
    ToTaskSettles(k, state) /\ UNCHANGED notToVars

TimerFires == \E k \in TimeoutCalls : ToTimerFires(k) /\ UNCHANGED notToVars

OnTimeoutSettles ==
  \E k \in TimeoutCalls : \E ok \in BOOLEAN : ToOnTimeoutSettles(k, ok) /\ UNCHANGED notToVars

TimeoutForgotten == \E k \in TimeoutCalls : ToForgotten(k) /\ UNCHANGED notToVars

TimeoutNext ==
  \/ TimeoutCalled
  \/ TaskSettles
  \/ TimerFires
  \/ OnTimeoutSettles
  \/ TimeoutForgotten

TimeoutSpec == Init /\ [][TimeoutNext]_vars

\* ------------------------------------------------------------ C28
(***************************************************************************)
(* C28: the returned promise resolves with the task's result only if       *)
(* onTimeout was never invoked; once onTimeout has been invoked the        *)
(* returned promise, when it settles, rejects with 'Hard timeout           *)
(* exceeded'; and a task that settles before the timer fires has the timer *)
(* cleared and onTimeout never invoked.                                    *)
(***************************************************************************)
C28_TimeoutWins ==
  \A k \in TimeoutCalls :
    /\ toResult[k] = "value" => toOnTimeout[k] = "none"
    /\ (toOnTimeout[k] # "none" /\ toResult[k] \notin {"none", "pending"})
         => toResult[k] = "timeout"
    /\ toTimer[k] = "cleared" => toOnTimeout[k] = "none"


\* ------------------------------------------------------------ consent UI
(***************************************************************************)
(* removeConsentUI.ts.  Identifiers, class names and text are strings; a   *)
(* node is a record with the element's id, className, role and aria-modal  *)
(* ("" when absent) or a text node's data.  Nodes are numbered in document *)
(* order; node 1 is the body.                                              *)
(***************************************************************************)
\* s.includes(needle)
Contains(s, needle) ==
  \E i \in 1..(Len(s) - Len(needle) + 1) : SubSeq(s, i, i + Len(needle) - 1) = needle

UpperCase == "ABCDEFGHIJKLMNOPQRSTUVWXYZ"

LowerCase == "abcdefghijklmnopqrstuvwxyz"

LowerChar(c) ==
  IF \E i \in 1..26 : SubSeq(UpperCase, i, i) = c
    THEN LET i == CHOOSE j \in 1..26 : SubSeq(UpperCase, j, j) = c IN SubSeq(LowerCase, i, i)
    ELSE c

\* s.toLowerCase()
RECURSIVE Lower(_)
Lower(s) ==
  IF s = "" THEN "" ELSE LowerChar(SubSeq(s, 1, 1)) \o Lower(SubSeq(s, 2, Len(s)))

\* s.replace(/\s+/g, ' ')
RECURSIVE Squeeze(_)
Squeeze(s) ==
  IF s = "" THEN ""
  ELSE LET c == SubSeq(s, 1, 1)
           rest == Squeeze(SubSeq(s, 2, Len(s)))
       IN IF c \in Whitespace
            THEN (IF rest # "" /\ SubSeq(rest, 1, 1) = " " THEN rest ELSE " " \o rest)
            ELSE c \o rest

\* s.trim() of a string whose whitespace runs are single spaces
TrimSpaces(s) ==
  LET a == IF s # "" /\ SubSeq(s, 1, 1) = " " THEN SubSeq(s, 2, Len(s)) ELSE s
  IN IF a # "" /\ SubSeq(a, Len(a), Len(a)) = " " THEN SubSeq(a, 1, Len(a) - 1) ELSE a

CuEl(id, class, role) ==
  [kind |-> "el", tag |-> "div", id |-> id, class |-> class, role |-> role, modal |-> "",
   text |-> ""]

CuText(data) ==
  [kind |-> "text", tag |-> "#text", id |-> "", class |-> "", role |-> "", modal |-> "",
   text |-> data]

\* el.textContent over child lists k
CuTextContent(k, n) ==
  LET b == SelectSeq(Below(k, n), LAMBDA m : cuLab[m].kind = "text")
      RECURSIVE Join(_)
      Join(i) == IF i > Len(b) THEN "" ELSE cuLab[b[i]].text \o Join(i + 1)
  IN Join(1)

\* elementText, lines 43-45
elementText(k, el) == TrimSpaces(Squeeze(CuTextContent(k, el)))

\* Selectors: #id, .class, [name*="v" i]... (all parts must hold), [name="v"]
ById(v) == [sel |-> "id", parts |-> <<<<"id", v>>>>]

ByClass(v) == [sel |-> "class", parts |-> <<<<"class", v>>>>]

BySubstring(parts) == [sel |-> "substring", parts |-> parts]

ByValue(name, v) == [sel |-> "value", parts |-> <<<<name, v>>>>]

\* CONSENT_SELECTORS, lines 3-38
CONSENT_SELECTORS ==
  <<ById("onetrust-banner-sdk"), ById("onetrust-consent-sdk"), ByClass("ot-sdk-container"),
    ByClass("otFloatingRoundedCorner"),
    ById("didomi-host"), ByClass("didomi-popup"), ByClass("didomi-notice"),
    ByClass("qc-cmp2-container"), ById("qc-cmp2-ui"), ByClass("qc-cmp2-main"),
    ById("CybotCookiebotDialog"), ById("CookiebotWidget"),
    ByClass("iubenda-cs-container"), ByClass("iubenda-cs-overlay"),
    BySubstring(<<<<"class", "iubenda">>>>),
    BySubstring(<<<<"class", "osano">>>>), BySubstring(<<<<"id", "osano">>>>),
    BySubstring(<<<<"class", "cookie-consent">>>>), BySubstring(<<<<"class", "cookiebanner">>>>),
    BySubstring(<<<<"class", "cookie-banner">>>>), BySubstring(<<<<"class", "cookie-notice">>>>),
    BySubstring(<<<<"id", "cookie">>, <<"id", "banner">>>>),
    BySubstring(<<<<"class", "gdpr">>>>), BySubstring(<<<<"class", "consent">>>>),
    BySubstring(<<<<"id", "consent">>>>),
    ByValue("role", "dialog"), ByValue("aria-modal", "true")>>

\* The selector list of the overlay pass, line 94
OVERLAY_SELECTORS ==
  <<BySubstring(<<<<"class", "overlay">>>>), BySubstring(<<<<"class", "backdrop">>>>),
    BySubstring(<<<<"id", "overlay">>>>), BySubstring(<<<<"id", "backdrop">>>>)>>

Attribute(node, name) ==
  CASE name = "id" -> node.id
    [] name = "class" -> node.class
    [] name = "role" -> node.role
    [] OTHER -> node.modal

\* The class attribute has the token v.
HasClass(class, v) == Contains(" " \o Squeeze(class) \o " ", " " \o v \o " ")

\* element.matches(selector)
Matches(node, selector) ==
  /\ node.kind = "el"
  /\ \A i \in DOMAIN selector.parts :
       LET name == selector.parts[i][1]
           v == selector.parts[i][2]
       IN CASE selector.sel = "id" -> node.id = v
            [] selector.sel = "class" -> HasClass(node.class, v)
            [] selector.sel = "substring" -> Contains(Lower(Attribute(node, name)), Lower(v))
            [] OTHER -> Attribute(node, name) = v

\* body.querySelectorAll(selector): the matching elements below body, in
\* document order
CuQuerySelectorAll(L, k, selector) ==
  SelectSeq(Below(k, BODY), LAMBDA n : Matches(L[n], selector))

\* Set.add for each element of list, keeping the insertion order
RECURSIVE AddAll(_, _)
AddAll(set, list) ==
  IF list = <<>> THEN set
  ELSE AddAll(IF Head(list) \in Range(set) THEN set ELSE Append(set, Head(list)), Tail(list))

\* The loop of lines 67-69 from selector i on
RECURSIVE Collect(_, _, _, _)
Collect(L, k, i, set) ==
  IF i > Len(CONSENT_SELECTORS) THEN set
  ELSE Collect(L, k, i + 1, AddAll(set, CuQuerySelectorAll(L, k, CONSENT_SELECTORS[i])))

\* lines 75-82
vendorHit(node) ==
  LET idc == Lower(node.id \o " " \o node.class)
  IN \/ Contains(idc, "onetrust")
     \/ Contains(idc, "didomi")
     \/ Contains(idc, "qc-cmp")
     \/ Contains(idc, "cookiebot")
     \/ Contains(idc, "iubenda")
     \/ Contains(idc, "osano")

\* CONSENT_TEXT_RE.test(t), lines 40-41 (the i flag: letters match in either case)
CONSENT_TEXT_RE(t) ==
  \E word \in {"cookie", "cookies", "consent", "gdpr", "tcf", "iab", "legitimate interest",
               "vendor", "vendors", "purposes", "preferences", "privacy policy",
               "personal data"} :
    Contains(Lower(t), word)

Points(hit, n) == IF hit THEN n ELSE 0

\* scoreConsent, lines 47-58, of an element whose elementText is txt
scoreConsent(txt) ==
  LET t == Lower(txt)
  IN Points(Contains(t, "cookie"), 3)
     + Points(Contains(t, "consent"), 2)
     + Points(Contains(t, "preferences") \/ Contains(t, "settings") \/ Contains(t, "manage"), 2)
     + Points(Contains(t, "vendors") \/ Contains(t, "purposes"), 2)
     + Points(Contains(t, "iab") \/ Contains(t, "tcf") \/ Contains(t, "legitimate interest"), 2)
     + Points(Contains(t, "privacy policy") \/ Contains(t, "privacy"), 1)
     + Points(Contains(t, "accept") \/ Contains(t, "reject"), 1)

looksConsentByVendorOnly(k, el) == vendorHit(cuLab[el])

\* looksConsent, line 85
looksConsent(k, el) ==
  LET txt == elementText(k, el)
  IN vendorHit(cuLab[el]) \/ CONSENT_TEXT_RE(txt) \/ scoreConsent(txt) >= 5

\* removeConsentUI(doc) is called: lines 64-71
CuCall(d) ==
  /\ cuPc = "idle"
  /\ cuLab' = d.lab
  /\ cuKids' = InitialKids(d)
  /\ cuKids0' = InitialKids(d)
  /\ cuCandidates' = Collect(d.lab, InitialKids(d), 1, <<>>)
  /\ cuIdx' = 1
  /\ cuRemoved' = 0
  /\ cuPc' = "loop"
  /\ UNCHANGED notCuVars

\* One iteration of the loop over the candidates, lines 74-91
CuCandidate ==
  /\ cuPc = "loop"
  /\ cuIdx <= Len(cuCandidates)
  /\ LET el == cuCandidates[cuIdx]
     IN IF looksConsent(cuKids, el)
          THEN /\ cuKids' = Detach(cuKids, el)
               /\ cuRemoved' = cuRemoved + 1
          ELSE UNCHANGED <<cuKids, cuRemoved>>
  /\ cuIdx' = cuIdx + 1
  /\ UNCHANGED <<cuPc, cuLab, cuKids0, cuCandidates, notCuVars>>

\* The elements the overlay pass finds (line 94), in document order
Overlays(k) ==
  SelectSeq(Below(k, BODY),
            LAMBDA n : \E i \in DOMAIN OVERLAY_SELECTORS : Matches(cuLab[n], OVERLAY_SELECTORS[i]))

\* The test of line 98
OverlayGoes(k, el) ==
  LET t == elementText(k, el) IN t = "" \/ CONSENT_TEXT_RE(t)

\* The forEach of lines 94-103 from position i of the list on
RECURSIVE OverlayPass(_, _, _)
OverlayPass(list, i, st) ==
  IF i > Len(list) THEN st
  ELSE OverlayPass(list, i + 1,
         IF OverlayGoes(st.k, list[i])
           THEN [k |-> Detach(st.k, list[i]), removed |-> st.removed + 1]
           ELSE st)

\* The loop is over: the overlay pass runs and removeConsentUI returns removed.
CuOverlays ==
  /\ cuPc = "loop"
  /\ cuIdx > Len(cuCandidates)
  /\ LET st == OverlayPass(Overlays(cuKids), 1, [k |-> cuKids, removed |-> cuRemoved])
     IN /\ cuKids' = st.k
        /\ cuRemoved' = st.removed
  /\ cuPc' = "done"
  /\ UNCHANGED <<cuLab, cuKids0, cuCandidates, cuIdx, notCuVars>>

\* The caller has the count; the document goes on to the reducer.
CuReturn ==
  /\ cuPc = "done"
  /\ cuPc' = "idle"
  /\ cuLab' = <<>>
  /\ cuKids' = <<>>
  /\ cuKids0' = <<>>
  /\ cuCandidates' = <<>>
  /\ cuIdx' = 0
  /\ cuRemoved' = 0
  /\ UNCHANGED notCuVars

\* Nodes under body of the documents removeConsentUI is called with.
MaxConsentNodes == 3

ConsentLabels ==
  {CuEl("onetrust-banner-sdk", "", ""), CuEl("", "consent-wrapper", ""),
   CuEl("", "Osano-dialog", ""), CuEl("", "modal-overlay", "dialog"), CuEl("", "", "dialog"),
   CuEl("", "", ""),
   CuText("We use cookies"), CuText(" Manage  settings, accept privacy "),
   CuText("Sign up"), CuText("Available now")}

ConsentDocuments ==
  UNION {{d \in {[lab |-> (1 :> CuEl("", "", "")) @@ l, par |-> par] :
                   l \in [2..(m + 1) -> ConsentLabels], par \in ParentMaps(m)} :
            WellFormed(d)} : m \in 0..MaxConsentNodes}

ConsentCalls == cuPc = "idle" /\ \E d \in ConsentDocuments : CuCall(d)

ConsentNext ==
  \/ ConsentCalls
  \/ CuCandidate
  \/ CuOverlays
  \/ CuReturn

ConsentSpec == Init /\ [][ConsentNext]_vars


\* ------------------------------------------------------------ C21
\* The vendor names, keywords and score table of the candidate rule.
KnownVendors == {"onetrust", "didomi", "qc-cmp", "cookiebot", "iubenda", "osano"}

ConsentKeywords ==
  {"cookie", "cookies", "consent", "gdpr", "tcf", "iab", "legitimate interest", "vendor",
   "vendors", "purposes", "preferences", "privacy policy", "personal data"}

ScoreTable ==
  <<[words |-> {"cookie"}, points |-> 3],
    [words |-> {"consent"}, points |-> 2],
    [words |-> {"preferences", "settings", "manage"}, points |-> 2],
    [words |-> {"vendors", "purposes"}, points |-> 2],
    [words |-> {"iab", "tcf", "legitimate interest"}, points |-> 2],
    [words |-> {"privacy", "privacy policy"}, points |-> 1],
    [words |-> {"accept", "reject"}, points |-> 1]>>

RECURSIVE KeywordScore(_, _)
KeywordScore(t, i) ==
  IF i > Len(ScoreTable) THEN 0
  ELSE (IF \E w \in ScoreTable[i].words : Contains(t, w) THEN ScoreTable[i].points ELSE 0)
         + KeywordScore(t, i + 1)

\* The candidate rule: a vendor name in id or class, a keyword in the text, or
\* a score of at least 5.
MeetsRule(node, text) ==
  \/ \E v \in KnownVendors : Contains(Lower(node.id), v) \/ Contains(Lower(node.class), v)
  \/ \E w \in ConsentKeywords : Contains(Lower(text), w)
  \/ KeywordScore(Lower(text), 1) >= 5

(***************************************************************************)
(* C21 as stated: when removeConsentUI returns, a candidate is out of the  *)
(* document exactly when it meets the candidate rule; a candidate meeting  *)
(* none of the three conditions is still in the document.                  *)
(***************************************************************************)
C21_CandidateLeftOrRemoved ==
  cuPc = "done" =>
    \A c \in Range(cuCandidates) :
      (c \notin Under(cuKids, BODY)) <=> MeetsRule(cuLab[c], elementText(cuKids0, c))

(***************************************************************************)
(* C21: the loop over the candidates removes the candidate it examines     *)
(* exactly when, as it examines it, the candidate meets the rule; only     *)
(* that candidate and what it contains leave the document, and a candidate *)
(* that does not meet the rule is left where it is by the loop.            *)
(***************************************************************************)
C21_CandidateRule ==
  [][(cuPc = "loop" /\ cuIdx <= Len(cuCandidates)) =>
       LET el == cuCandidates[cuIdx]
           meets == MeetsRule(cuLab[el], elementText(cuKids, el))
           gone == Under(cuKids, BODY) \ Under(cuKids', BODY)
       IN /\ cuRemoved' = cuRemoved + (IF meets THEN 1 ELSE 0)
          /\ meets => (~HasParent(cuKids', el) /\ gone \subseteq ({el} \cup Under(cuKids, el)))
          /\ ~meets => cuKids' = cuKids]_vars

\* The loop is over: it has removed a candidate for its text alone and left
\* another that meets none of the conditions.
C21_Witness ==
  /\ cuPc = "loop"
  /\ cuIdx > Len(cuCandidates)
  /\ \E c \in Range(cuCandidates) : \E d \in Range(cuCandidates) :
       /\ c \notin Under(cuKids, BODY)
       /\ ~vendorHit(cuLab[c])
       /\ CONSENT_TEXT_RE(elementText(cuKids, c))
       /\ d \in Under(cuKids, BODY)
       /\ ~MeetsRule(cuLab[d], elementText(cuKids, d))

=============================================================================
